---- MODULE Spec2Model ----
(***************************************************************************)
(* Transport core of note-composer: AudioEngine (src/audio/AudioEngine.ts) *)
(* and IndividualPlaybackManager (src/audio/IndividualPlaybackManager.ts)  *)
(* over a Web Audio context whose AudioBufferSourceNodes are single-use    *)
(* and report their end through an 'ended' event delivered as a later task,*)
(* and NodeManager (src/audio/NodeManager.ts), the graph of connected      *)
(* nodes that plays and stops a node together with its neighbours.         *)
(*                                                                         *)
(* Time is counted in units of 0.01 s, so the 0.01 s threshold of          *)
(* resumeNode is one unit.                                                 *)
(***************************************************************************)
EXTENDS Integers, FiniteSets, Sequences, TLC

\* ------------------------------------------------------------------ bounds
MaxClock == 6
MaxSources == 3
BufferDuration == 3

\* the graph of nodes: the clock, the sources created and the transport calls
\* (playNode, stopNode, pauseNode, resumeNode) made in one run
MaxGraphClock == 3
MaxGraphSources == 3
MaxCalls == 3

\* ------------------------------------------------------- program constants
\* the ids createNode hands out, in order
NodeOrder == <<"A", "B", "C">>
GraphNodes == {NodeOrder[i] : i \in 1..Len(NodeOrder)}
GraphSrcIds == 1..MaxGraphSources
Epsilon == 1

Nodes == {"A"}
SrcIds == 1..MaxSources
None == 0

\* Gain values are counted in tenths: Unity is the gain 1, MasterDefault the 0.7
\* that initialize gives the master gain stage.
Unity == 10
MasterDefault == 7
\* the AudioContext objects a run may construct
MaxContexts == 2
\* the values passed to setNodeVolume and setMasterVolume: -0.5, 0.3, 1, 1.5
Levels == {-5, 3, Unity, 15}

VARIABLES
    subject,      \* which class the client drives: "engine" or "ipm"
    clock,        \* audioContext.currentTime
    audioContext, \* AudioEngine.audioContext / masterGain created
    master,       \* AudioEngine.isInitialized, the context and the master gain
                  \* stage it holds, and the master level
    upload,       \* the file handed to handleFileUpload and what the flow did
    recorder,     \* SessionRecorder: its props, refs, MediaRecorders and timers
    gesture,      \* GestureRecognizer: its fields, its timeouts and what it emitted
    sources,      \* every AudioBufferSourceNode created so far
    nextSrc,      \* id of the next source createBufferSource returns
    activeNodes,  \* AudioEngine.activeNodes
    nodeStates,   \* AudioEngine.nodeStates
    ipmStates,    \* IndividualPlaybackManager.nodeStates
    timeTrackers, \* IndividualPlaybackManager.timeTrackers
    intervals,    \* the setInterval timers that have not been cleared
    played,       \* history: time each node spent Playing since its last fresh play
    resumes,      \* history: the resumes since the last fresh play: "none", "kept"
                  \* (each started at the paused offset) or "fellBack" (one started at 0)
    sinceStop,    \* history: stopNode was called and no unit was created since
    nodes,        \* NodeManager.nodes
    calls,        \* history: the transport calls made on the graph of nodes so far
    last          \* history: the operation that produced this state

vars == <<subject, clock, audioContext, master, upload, recorder, gesture, sources, nextSrc, activeNodes, nodeStates,
          ipmStates, timeTrackers, intervals, played, resumes, sinceStop, nodes, calls, last>>

\* ------------------------------------------------------- the audio platform
\* An AudioBufferSourceNode.  status: "free" not created yet, "live" started and
\* sounding, "stopped" ended by stop() with its 'ended' event queued, "finished"
\* ended at end-of-asset with its 'ended' event queued, "done" event delivered.
FreeSource == [status |-> "free", node |-> "-", loop |-> FALSE, offset |-> 0, startedAt |-> 0]

\* A source that no longer sounds: only its node (the nodeId its onended
\* closure holds) still matters.
Ended(status, n) == [FreeSource EXCEPT !.status = status, !.node = n]

LiveSourcesOf(n) == {s \in DOMAIN sources : sources[s].status = "live" /\ sources[s].node = n}

\* source.start(0, offset) at time `now`: a non-looping source started at or past
\* the end of its buffer ends at once.
StartedSource(n, loop, offset, now) ==
    IF ~loop /\ offset >= BufferDuration
    THEN Ended("finished", n)
    ELSE [status |-> "live", node |-> n, loop |-> loop, offset |-> offset, startedAt |-> now]

\* source.stop(): a live source stops sounding and its 'ended' event is queued;
\* on a source that has already ended nothing changes.
StopSource(srcs, s) ==
    IF s # None /\ srcs[s].status = "live"
    THEN [srcs EXCEPT ![s] = Ended("stopped", srcs[s].node)]
    ELSE srcs

\* What a stop() call can do: it succeeds on a live source; on a source that has
\* already ended the platform may accept it silently or raise.
AlreadyEnded(srcs, s) == s # None /\ srcs[s].status # "live"

StopOutcomes(srcs, s) ==
    IF AlreadyEnded(srcs, s) THEN {"ok", "throws"} ELSE {"ok"}

\* The audio thread: after the clock advances, every live non-looping source
\* that has played out its buffer has ended.
AfterTick(srcs, now) ==
    [s \in DOMAIN srcs |->
        IF /\ srcs[s].status = "live"
           /\ ~srcs[s].loop
           /\ now - srcs[s].startedAt >= BufferDuration - srcs[s].offset
        THEN Ended("finished", srcs[s].node)
        ELSE srcs[s]]

\* ------------------------------------------------------------- AudioEngine
\* NodePlaybackState.  volume and isMuted are those a first playAudioBuffer
\* stores; gain is gainNode.gain.value of the record's gain stage.  stages is
\* not a field of the record: it counts the gain stages created for the node
\* that are connected to masterGain (no code path calls disconnect()).
NoNodeState ==
    [has |-> FALSE, source |-> None, isPlaying |-> FALSE, isPaused |-> FALSE,
     startTime |-> 0, pauseTime |-> 0, volume |-> Unity, isMuted |-> FALSE,
     gain |-> Unity, stages |-> 0]

\* isInitialized, audioContext and masterGain of the engine (None is null), the
\* gain value of the master gain stage, and the contexts constructed so far
NoMaster ==
    [isInitialized |-> FALSE, context |-> None, masterGain |-> None, level |-> 0,
     made |-> 0]

\* ------------------------------------------------------------ file upload
\* const maxSize of validateAudioFile, in bytes
MaxFileSize == 30 * 1024 * 1024
\* const allowedTypes of validateAudioFile
AllowedTypes == {"audio/mpeg", "audio/wav", "audio/mp4", "audio/ogg", "audio/aac"}
\* the files handed to the upload flow: file.size and file.type
FileSizes == {0, 1, MaxFileSize - 1, MaxFileSize, MaxFileSize + 1, 2 * MaxFileSize}
FileTypes == AllowedTypes \cup {"audio/flac", "video/mp4", ""}
\* the uploads of one run
MaxUploads == 2

TooLarge == "File too large. Maximum size is 30MB."
Unsupported == "Unsupported file format. Please use MP3, WAV, M4A, OGG, or AAC."
NoError == "-"

\* variant of validateAudioFile that rejects a file of exactly maxSize bytes
ValidateAudioFileStrict(size, type) ==
    IF size >= MaxFileSize THEN [isValid |-> FALSE, error |-> TooLarge]
    ELSE IF type \notin AllowedTypes THEN [isValid |-> FALSE, error |-> Unsupported]
    ELSE [isValid |-> TRUE, error |-> NoError]

\* validateAudioFile
ValidateAudioFile(size, type) ==
    IF size > MaxFileSize THEN [isValid |-> FALSE, error |-> TooLarge]
    ELSE IF type \notin AllowedTypes THEN [isValid |-> FALSE, error |-> Unsupported]
    ELSE [isValid |-> TRUE, error |-> NoError]

\* The file chosen in the uploader, the result of its validation, the message
\* shown by alert, whether the handler threw, and the counts of uploads
\* handled, of decodeAudioData calls and of nodes added to the canvas.
NoUpload ==
    [chosen |-> FALSE, size |-> 0, type |-> "", handled |-> FALSE,
     validation |-> [isValid |-> FALSE, error |-> NoError], alert |-> NoError,
     thrown |-> FALSE, uploads |-> 0, decodes |-> 0, canvasNodes |-> 0]

\* --------------------------------------------------------- session recorder
\* the MediaRecorder objects one run constructs, and the chunks it buffers
MaxRecorders == 2
MaxChunks == 2
RecIds == 1..MaxRecorders

\* variant: which SessionRecorder is built, "microphone" (getUserMedia) or
\* "mixBus" (createMediaStreamDestination).  isRecording: the prop.  pending:
\* the startRecording calls that await getUserMedia.  ref: mediaRecorderRef.
\* state: of each MediaRecorder, "none" not constructed, "recording", "stopping"
\* stop() called and its dataavailable and stop events queued, "inactive" after
\* onstop.  source: what feeds its stream.  chunks: audioChunksRef.current, each
\* chunk named by the recorder that produced it.  produced: history, the chunks
\* each recorder has buffered.  blobs, completes: the chunks handed to
\* onRecordingComplete by each recorder's onstop and the number of its calls.
\* intervalRef, timers: intervalRef.current and the duration intervals running.
\* alerted: a startRecording has shown its failure alert.
NoRecorder ==
    [variant |-> "-", isRecording |-> FALSE, pending |-> 0, ref |-> None, made |-> 0,
     state |-> [r \in RecIds |-> "none"], source |-> [r \in RecIds |-> "-"],
     chunks |-> <<>>, produced |-> [r \in RecIds |-> 0],
     blobs |-> [r \in RecIds |-> <<>>], completes |-> [r \in RecIds |-> 0],
     intervalRef |-> None, timers |-> {}, alerted |-> FALSE]

\* startRecording from the construction of the MediaRecorder on
RecBegin(R, source) ==
    LET id == R.made + 1 IN
    [R EXCEPT !.made = id, !.ref = id, !.state[id] = "recording",
              !.source[id] = source, !.chunks = <<>>,
              !.intervalRef = id, !.timers = @ \cup {id}]

\* startRecording of the mix-bus recorder; the audioEngine prop is set
RecStartMixBus(R, M) ==
    IF M.context = None THEN [R EXCEPT !.alerted = TRUE]
    ELSE RecBegin(R, IF M.masterGain # None THEN "masterGain" ELSE "silence")

\* stopRecording
RecStop(R) ==
    LET R1 == IF R.ref # None /\ R.state[R.ref] = "recording"
              THEN [R EXCEPT !.state[R.ref] = "stopping"]
              ELSE R
    IN  IF R1.intervalRef # None
        THEN [R1 EXCEPT !.timers = @ \ {R1.intervalRef}, !.intervalRef = None]
        ELSE R1

\* ondataavailable of recorder r
RecData(R, r, size) ==
    IF size > 0
    THEN [R EXCEPT !.chunks = Append(@, r), !.produced[r] = @ + 1]
    ELSE R

\* onstop of recorder r
RecOnStop(R, r) ==
    [R EXCEPT !.blobs[r] = R.chunks, !.completes[r] = @ + 1, !.state[r] = "inactive"]

\* Math.max(0, Math.min(1, volume))
Clamp(v) == IF v < 0 THEN 0 ELSE IF v > Unity THEN Unity ELSE v

\* variant of initialize without the isInitialized guard
EngInitializeAgain(M, outcome) ==
    IF outcome = "throws" THEN M
    ELSE [isInitialized |-> TRUE, context |-> M.made + 1, masterGain |-> M.made + 1,
          level |-> MasterDefault, made |-> M.made + 1]

\* AudioEngine.initialize.  outcome "throws": the AudioContext constructor
\* throws, and nothing has been assigned.
EngInitialize(M, outcome) ==
    IF M.isInitialized THEN M
    ELSE IF outcome = "throws" THEN M
    ELSE [isInitialized |-> TRUE, context |-> M.made + 1, masterGain |-> M.made + 1,
          level |-> MasterDefault, made |-> M.made + 1]

\* AudioEngine.setMasterVolume
EngSetMasterVolume(M, v) ==
    IF M.masterGain # None THEN [M EXCEPT !.level = Clamp(v)] ELSE M

\* IndividualNodeState; pausedAt undefined is NoTime
NoTime == -1

NoIpmState ==
    [has |-> FALSE, isPlaying |-> FALSE, isPaused |-> FALSE, currentTime |-> 0,
     audioSource |-> None, pausedAt |-> NoTime]

\* Transport state of an engine or manager record
Mode(st) ==
    IF ~st.has THEN "absent"
    ELSE IF st.isPaused THEN "paused"
    ELSE IF st.isPlaying THEN "playing"
    ELSE "stopped"

\* The record of the last operation: its name and node, the source it created
\* (or, for an 'ended' delivery, the source that ended), the node's transport
\* state and stored position (engine: pauseTime - startTime, manager:
\* currentTime) before it, the engine's startTime before a pause, whether it
\* made a stop() call on a source that had already ended, whether an exception
\* left the handler, whether it followed a stopNode with no unit created in
\* between, and whether the delivered 'ended' event was a natural end.  For
\* the calls made on a graph of nodes: the second node id or the loop argument
\* of the call.  For the engine's pauseNode: whether the source it stopped was
\* a looping one.
NoOp == [op |-> "init", node |-> "-", src |-> None, was |-> "absent", position |-> 0,
         ref |-> 0, failed |-> FALSE, thrown |-> FALSE, afterStop |-> FALSE,
         natural |-> FALSE, arg |-> "-"]

\* The engine's mutable maps, threaded through a handler's statements.
Engine == [src |-> sources, act |-> activeNodes, ns |-> nodeStates, thrown |-> FALSE]

\* variant without the try/catch: an exception of stop() leaves the handler
SwallowedNoCatch(outcome) == outcome = "ok"

\* try { source.stop() } catch { console.warn } : the handler goes on whatever
\* stop() did.

Swallowed(outcome) == TRUE

\* AudioEngine.stopNode
EngStopNode(E, n, outcome) ==
    LET a == E.act[n] IN
    IF a # None /\ ~Swallowed(outcome)
    THEN [E EXCEPT !.thrown = TRUE]
    ELSE LET E1 == IF a # None
                   THEN [E EXCEPT !.src = StopSource(@, a), !.act[n] = None]
                   ELSE E
         IN  IF E1.ns[n].has
             THEN [E1 EXCEPT !.ns[n].isPlaying = FALSE,
                             !.ns[n].isPaused = FALSE,
                             !.ns[n].source = None]
             ELSE E1

\* AudioEngine.playAudioBuffer, after its guard on audioContext and masterGain
EngPlayAudioBuffer(E, n, loop, outcome, id, now) ==
    LET E1 == EngStopNode(E, n, outcome) IN
    IF E1.thrown THEN E1
    ELSE [E1 EXCEPT
            !.ns[n] = [E1.ns[n] EXCEPT !.has = TRUE, !.source = id, !.isPlaying = TRUE,
                                       !.isPaused = FALSE, !.startTime = now,
                                       !.pauseTime = 0, !.gain = Unity,
                                       !.stages = @ + 1],
            !.src[id] = StartedSource(n, loop, 0, now),
            !.act[n] = id]

\* variant of setNodeVolume that applies the volume to the gain stage whether
\* the node is muted or not
EngSetNodeVolumeLoud(E, n, v) ==
    IF E.ns[n].has
    THEN [E EXCEPT !.ns[n].volume = Clamp(v), !.ns[n].gain = Clamp(v)]
    ELSE E

\* AudioEngine.setNodeVolume
EngSetNodeVolume(E, n, v) ==
    IF E.ns[n].has
    THEN [E EXCEPT !.ns[n].volume = Clamp(v),
                   !.ns[n].gain = IF E.ns[n].isMuted THEN 0 ELSE Clamp(v)]
    ELSE E

\* AudioEngine.muteNode
EngMuteNode(E, n) ==
    IF E.ns[n].has THEN [E EXCEPT !.ns[n].isMuted = TRUE, !.ns[n].gain = 0] ELSE E

\* AudioEngine.unmuteNode
EngUnmuteNode(E, n) ==
    IF E.ns[n].has
    THEN [E EXCEPT !.ns[n].isMuted = FALSE, !.ns[n].gain = E.ns[n].volume]
    ELSE E

\* variant of the guard below that does not look at isPlaying
CanPauseLoose(st) == st.has /\ ~st.isPaused

\* the guard of AudioEngine.pauseNode
CanPause(st) == st.has /\ st.isPlaying /\ ~st.isPaused

\* variant of pauseNode that pauses every node that plays
EngPauseNodeAll(E, n, outcome, now) ==
    [E EXCEPT
       !.src = [s \in DOMAIN E.src |->
                  IF E.src[s].status = "live" THEN Ended("stopped", E.src[s].node)
                  ELSE E.src[s]],
       !.ns = [m \in DOMAIN E.ns |->
                 IF CanPause(E.ns[m])
                 THEN [E.ns[m] EXCEPT !.isPaused = TRUE, !.isPlaying = FALSE, !.pauseTime = now]
                 ELSE E.ns[m]],
       !.act = [m \in DOMAIN E.act |-> None]]

\* AudioEngine.pauseNode, inside its guard
EngPauseNode(E, n, outcome, now) ==
    LET s == E.ns[n].source IN
    IF s # None /\ ~Swallowed(outcome)
    THEN [E EXCEPT !.thrown = TRUE]
    ELSE [E EXCEPT !.src = StopSource(@, s),
                   !.ns[n].isPaused = TRUE,
                   !.ns[n].isPlaying = FALSE,
                   !.ns[n].pauseTime = now,
                   !.act[n] = None]

Min(a, b) == IF a < b THEN a ELSE b
Max(a, b) == IF a > b THEN a ELSE b

\* elapsedTime of pauseNode and resumeNode
ElapsedTime(st) == st.pauseTime - st.startTime

\* variant of startOffset that clamps the pause time instead of the elapsed time
StartOffsetFromPauseTime(st) == Max(0, Min(st.pauseTime, BufferDuration))

\* startOffset of resumeNode
StartOffset(st) == Max(0, Min(ElapsedTime(st), BufferDuration))

\* variant of the test below without the epsilon and duration limits
MeaningfulOffsetLoose(st) == StartOffset(st) > 0

\* the test of resumeNode that decides between start(0, startOffset) and start()

MeaningfulOffset(st) == StartOffset(st) > Epsilon /\ StartOffset(st) < BufferDuration

\* variant that restarts the reference at every resume
ResumedStartTimeNow(st, now) == now

\* startTime after resumeNode

ResumedStartTime(st, now) ==
    IF MeaningfulOffset(st) THEN now - ElapsedTime(st) ELSE now

\* AudioEngine.resumeNode, inside its guard.  The new source's loop attribute is
\* never set, so it keeps the platform default (false).
EngResumeNode(E, n, id, now) ==
    LET st == E.ns[n] IN
    [E EXCEPT
        !.ns[n].source = id,
        !.ns[n].isPlaying = TRUE,
        !.ns[n].isPaused = FALSE,
        !.ns[n].startTime = ResumedStartTime(st, now),
        !.src[id] = StartedSource(n, FALSE, IF MeaningfulOffset(st) THEN StartOffset(st) ELSE 0, now),
        !.act[n] = id]

\* variant of the handler below that forgets the source and leaves the node
\* tracked as Playing
EngOnEndedKeepsPlaying(E, n) ==
    [E EXCEPT !.ns[n].source = None]

\* source.onended of playAudioBuffer and resumeNode
EngOnEnded(E, n) ==
    [E EXCEPT !.act[n] = None, !.ns[n].isPlaying = FALSE, !.ns[n].source = None]

\* ------------------------------------------------ IndividualPlaybackManager
NoInterval == [on |-> FALSE, node |-> "-", startTime |-> 0, startRealTime |-> 0]

\* The manager's mutable maps and the timers it owns.
Manager == [src |-> sources, st |-> ipmStates, tt |-> timeTrackers, iv |-> intervals,
            thrown |-> FALSE]

\* "Clear time tracking" of pauseNode and stopNode
ClearTracker(M, n) ==
    IF M.tt[n] # None
    THEN [M EXCEPT !.iv[M.tt[n]] = NoInterval, !.tt[n] = None]
    ELSE M

\* IndividualPlaybackManager.stopNode
IpmStopNode(M, n, outcome) ==
    LET state == M.st[n] IN
    IF ~state.has THEN M
    ELSE IF state.audioSource # None /\ ~Swallowed(outcome)
    THEN [M EXCEPT !.thrown = TRUE]
    ELSE LET M1 == ClearTracker([M EXCEPT !.src = StopSource(@, state.audioSource)], n)
         IN  [M1 EXCEPT !.st[n] = [state EXCEPT !.isPlaying = FALSE,
                                                !.isPaused = FALSE,
                                                !.audioSource = None,
                                                !.currentTime = 0,
                                                !.pausedAt = NoTime]]

\* IndividualPlaybackManager.startTimeTracking
StartTimeTracking(M, n, id, startTime, now) ==
    LET M1 == IF M.tt[n] # None THEN [M EXCEPT !.iv[M.tt[n]] = NoInterval] ELSE M
    IN  [M1 EXCEPT !.iv[id] = [on |-> TRUE, node |-> n, startTime |-> startTime,
                               startRealTime |-> now],
                   !.tt[n] = id]

\* IndividualPlaybackManager.playNode, after its guard.  `state` is the record
\* read before the inner stopNode, so a paused position survives that stop.
IpmPlayNode(M, n, outcome, id, now) ==
    LET state == M.st[n]
        M1 == IpmStopNode(M, n, outcome)
        startTime == IF state.isPaused THEN state.currentTime ELSE 0
    IN  IF M1.thrown THEN M1
        ELSE StartTimeTracking(
                [M1 EXCEPT !.src[id] = StartedSource(n, FALSE, startTime, now),
                           !.st[n] = [state EXCEPT !.isPlaying = TRUE,
                                                   !.isPaused = FALSE,
                                                   !.audioSource = id,
                                                   !.currentTime = startTime]],
                n, id, startTime, now)

\* IndividualPlaybackManager.pauseNode, after its guard
IpmPauseNode(M, n, outcome, now) ==
    LET state == M.st[n] IN
    IF state.audioSource # None /\ ~Swallowed(outcome)
    THEN [M EXCEPT !.thrown = TRUE]
    ELSE LET M1 == ClearTracker([M EXCEPT !.src = StopSource(@, state.audioSource)], n)
         IN  [M1 EXCEPT !.st[n] = [state EXCEPT !.isPlaying = FALSE,
                                                !.isPaused = TRUE,
                                                !.audioSource = None,
                                                !.pausedAt = now]]

\* the setInterval callback of startTimeTracking
IpmTrackerFired(M, id, now) ==
    LET n == M.iv[id].node
        state == M.st[n]
    IN  IF ~state.has \/ ~state.isPlaying
        THEN [M EXCEPT !.iv[id] = NoInterval, !.tt[n] = None]
        ELSE [M EXCEPT !.st[n].currentTime = M.iv[id].startTime + (now - M.iv[id].startRealTime)]

\* nodeStates.forEach(stopNode) of dispose
RECURSIVE IpmStopAll(_, _, _)
IpmStopAll(M, ns, outcome) ==
    IF ns = {} \/ M.thrown THEN M
    ELSE LET n == CHOOSE x \in ns : TRUE
         IN  IpmStopAll(IpmStopNode(M, n, outcome), ns \ {n}, outcome)

\* IndividualPlaybackManager.dispose
IpmDispose(M, outcome) ==
    LET cleared == {M.tt[n] : n \in Nodes} \ {None}
        M1 == [M EXCEPT !.iv = [i \in SrcIds |-> IF i \in cleared THEN NoInterval ELSE @[i]],
                        !.tt = [n \in Nodes |-> None]]
    IN  IpmStopAll(M1, {n \in Nodes : M1.st[n].has}, outcome)

\* -------------------------------------------------------------- NodeManager
\* An entry of NodeManager.nodes (the audio buffer of a created node is always
\* present, createNode stores the decoded buffer).  `gone` marks an id that was
\* removed: ids are unique, createNode never hands one out again.
NoNode == [has |-> FALSE, gone |-> FALSE, isPlaying |-> FALSE, connections |-> <<>>]

\* The node manager with the engine it drives, threaded through a handler.
Graph == [src |-> sources, act |-> activeNodes, ns |-> nodeStates, thrown |-> FALSE,
          nodes |-> nodes]

\* Array.prototype.includes
Includes(seq, x) == \E i \in 1..Len(seq) : seq[i] = x

\* connections.filter(id => id !== x)
Without(seq, x) == SelectSeq(seq, LAMBDA y : y # x)

\* createBufferSource(): the id of the new source, the lowest not yet used
Unused(srcs) == {s \in DOMAIN srcs : srcs[s].status = "free"}
NewSource(srcs) == CHOOSE s \in Unused(srcs) : \A t \in Unused(srcs) : s <= t

\* NodeManager.updateNodeState(n, { isPlaying })
UpdateNodeState(G, n, playing) ==
    IF G.nodes[n].has THEN [G EXCEPT !.nodes[n].isPlaying = playing] ELSE G

\* audioEngine.playAudioBuffer as the node manager calls it
NmPlayAudioBuffer(G, n, loop, outcome, now) ==
    IF ~audioContext THEN G
    ELSE EngPlayAudioBuffer(G, n, loop, outcome, NewSource(G.src), now)

\* variant of the test below that starts every connected node
NotPlayingAny(G, c) == TRUE

\* the test playNode makes on a connected node: the manager's own flag
NotPlaying(G, c) == ~G.nodes[c].isPlaying

\* the loop argument playNode passes on for a connected node
ConnectedLoop(loop) == loop

\* the body of node.connections.forEach in playNode
PlayConnected(G, c, loop, outcome, now) ==
    IF G.thrown THEN G
    ELSE IF G.nodes[c].has /\ NotPlaying(G, c)
    THEN LET G1 == NmPlayAudioBuffer(G, c, ConnectedLoop(loop), outcome, now)
         IN  IF G1.thrown THEN G1 ELSE UpdateNodeState(G1, c, TRUE)
    ELSE G

RECURSIVE PlayEach(_, _, _, _, _)
PlayEach(G, cs, loop, outcome, now) ==
    IF cs = <<>> THEN G
    ELSE PlayEach(PlayConnected(G, Head(cs), loop, outcome, now), Tail(cs), loop, outcome, now)

\* variant of playNode without the early return for an id that has no record
NmPlayNodeUnchecked(G, n, loop, outcome, now) ==
    LET G1 == NmPlayAudioBuffer(G, n, loop, outcome, now)
    IN  IF G1.thrown THEN G1
        ELSE PlayEach(UpdateNodeState(G1, n, TRUE), G.nodes[n].connections,
                      loop, outcome, now)

\* NodeManager.playNode
NmPlayNode(G, n, loop, outcome, now) ==
    IF ~G.nodes[n].has THEN G
    ELSE LET G1 == NmPlayAudioBuffer(G, n, loop, outcome, now)
         IN  IF G1.thrown THEN G1
             ELSE PlayEach(UpdateNodeState(G1, n, TRUE), G.nodes[n].connections,
                           loop, outcome, now)

\* audioEngine.stopNode(c); updateNodeState(c, { isPlaying: false })
StopOne(G, c, outcome) ==
    IF G.thrown THEN G
    ELSE LET G1 == EngStopNode(G, c, outcome)
         IN  IF G1.thrown THEN G1 ELSE UpdateNodeState(G1, c, FALSE)

RECURSIVE StopEach(_, _, _)
StopEach(G, cs, outcome) ==
    IF cs = <<>> THEN G
    ELSE StopEach(StopOne(G, Head(cs), outcome), Tail(cs), outcome)

\* variant of stopNode that also stops the nodes connected to the connected nodes
RECURSIVE StopHops(_, _, _)
StopHops(G, cs, outcome) ==
    IF cs = <<>> THEN G
    ELSE StopHops(StopEach(StopOne(G, Head(cs), outcome),
                           G.nodes[Head(cs)].connections, outcome),
                  Tail(cs), outcome)

NmStopNodeTwoHops(G, n, outcome) ==
    LET G1 == StopOne(G, n, outcome)
    IN  IF G1.nodes[n].has THEN StopHops(G1, G1.nodes[n].connections, outcome) ELSE G1

\* NodeManager.stopNode
NmStopNode(G, n, outcome) ==
    LET G1 == StopOne(G, n, outcome)
    IN  IF G1.nodes[n].has THEN StopEach(G1, G1.nodes[n].connections, outcome) ELSE G1

\* variant of connectNodes that records the link at its first end only
NmConnectOneWay(ns, from, to) ==
    IF ns[from].has /\ ns[to].has /\ ~Includes(ns[from].connections, to)
    THEN [ns EXCEPT ![from].connections = Append(@, to)]
    ELSE ns

\* NodeManager.connectNodes
NmConnectNodes(ns, from, to) ==
    IF ns[from].has /\ ns[to].has /\ ~Includes(ns[from].connections, to)
    THEN LET n1 == [ns EXCEPT ![from].connections = Append(@, to)]
         IN  [n1 EXCEPT ![to].connections = Append(@, from)]
    ELSE ns

\* variant of disconnectNodes that filters the list of its first end only
NmDisconnectOneWay(ns, from, to) ==
    IF ns[from].has THEN [ns EXCEPT ![from].connections = Without(@, to)] ELSE ns

\* NodeManager.disconnectNodes
NmDisconnectNodes(ns, from, to) ==
    LET n1 == IF ns[from].has THEN [ns EXCEPT ![from].connections = Without(@, to)] ELSE ns
    IN  IF n1[to].has THEN [n1 EXCEPT ![to].connections = Without(@, from)] ELSE n1

\* node.connections.forEach(c => disconnectNodes(n, c)) of removeNode, over the
\* array the node held when the loop began
RECURSIVE DisconnectEach(_, _, _)
DisconnectEach(ns, n, cs) ==
    IF cs = <<>> THEN ns
    ELSE DisconnectEach(NmDisconnectNodes(ns, n, Head(cs)), n, Tail(cs))

\* NodeManager.removeNode
NmRemoveNode(G, n, outcome) ==
    IF ~G.nodes[n].has THEN G
    ELSE LET G1 == NmStopNode(G, n, outcome)
         IN  IF G1.thrown THEN G1
             ELSE [G1 EXCEPT !.nodes =
                     [DisconnectEach(G1.nodes, n, G1.nodes[n].connections)
                        EXCEPT ![n] = [NoNode EXCEPT !.gone = TRUE]]]

\* ------------------------------------------------------ gesture recognizer
\* LONG_PRESS_DURATION, DOUBLE_TAP_DURATION (ms) and DRAG_THRESHOLD
LongPressDuration == 800
DoubleTapDuration == 300
DragThreshold == 10

\* Date.now() when the recognizer is constructed, in ms: any value that is not
\* within DOUBLE_TAP_DURATION of the epoch
Origin == 1000
\* the time by which Date.now() advances between two events
Steps == {200, 300}
\* the instant after which the clock is not followed
MaxGestureTime == Origin + 1200
\* the onStart calls followed
MaxPresses == 3
PressIds == 1..MaxPresses
\* the pointer positions: where a press starts, one exactly DRAG_THRESHOLD away
\* from it and one farther away
StartPoint == <<0, 0>>
Points == {StartPoint, <<6, 8>>, <<7, 8>>}

\* distance > DRAG_THRESHOLD of onMove, on the squares
BeyondThreshold(p, q) ==
    (p[1] - q[1]) * (p[1] - q[1]) + (p[2] - q[2]) * (p[2] - q[2])
        > DragThreshold * DragThreshold

\* The recognizer's fields (None is null), the setTimeout timers that are
\* scheduled (the timer of the n-th onStart has id n and stands for the n-th
\* press), and history: the presses started, those ended by an onEnd or
\* classified as a drag, how many of tap, doubleTap and longPress were emitted
\* for each press (2 stands for two or more), and the kind of the last tap or
\* doubleTap emitted.
NoGesture ==
    [startTime |-> 0, startPosition |-> <<0, 0>>, lastTapTime |-> 0,
     longPressTimer |-> None, isDragging |-> FALSE,
     timers |-> {}, made |-> 0, closed |-> {},
     emitted |-> [p \in PressIds |-> 0], lastKind |-> "-", out |-> "-"]

\* onGesture with a tap, doubleTap or longPress for press p
Emit(G, kind, p) ==
    [G EXCEPT !.out = kind,
              !.emitted = IF p \in PressIds
                          THEN [@ EXCEPT ![p] = IF @ = 0 THEN 1 ELSE 2]
                          ELSE @,
              !.lastKind = IF kind = "longPress" THEN @ ELSE kind]

\* GestureRecognizer.clearLongPressTimer
ClearLongPressTimer(G) ==
    IF G.longPressTimer # None
    THEN [G EXCEPT !.timers = {t \in @ : t.id # G.longPressTimer},
                   !.longPressTimer = None]
    ELSE G

\* GestureRecognizer.onStart
GestOnStart(G, p, now) ==
    LET id == G.made + 1 IN
    [G EXCEPT !.startTime = now, !.startPosition = p, !.isDragging = FALSE,
              !.made = id, !.longPressTimer = id,
              !.timers = @ \cup {[id |-> id, due |-> now + LongPressDuration]},
              !.out = "-"]

\* GestureRecognizer.onMove
GestOnMove(G, p) ==
    IF BeyondThreshold(p, G.startPosition) /\ ~G.isDragging
    THEN [ClearLongPressTimer([G EXCEPT !.isDragging = TRUE])
            EXCEPT !.out = "drag", !.closed = (@ \cup {G.made}) \ {0}]
    ELSE [G EXCEPT !.out = "-"]

\* GestureRecognizer.onEnd: it ends every press started so far
GestOnEnd(G, now) ==
    LET G1 == [ClearLongPressTimer(G) EXCEPT !.out = "-"]
        G2 == IF ~G1.isDragging /\ now - G1.startTime < LongPressDuration
              THEN IF now - G1.lastTapTime < DoubleTapDuration
                   THEN [Emit(G1, "doubleTap", G1.made) EXCEPT !.lastTapTime = 0]
                   ELSE [Emit(G1, "tap", G1.made) EXCEPT !.lastTapTime = now]
              ELSE G1
    IN  [G2 EXCEPT !.isDragging = FALSE, !.closed = 1..G.made]

\* the setTimeout callback of onStart, for the timer armed by press id
GestLongPress(G, id) ==
    LET G1 == [G EXCEPT !.timers = {t \in @ : t.id # id}, !.out = "-"] IN
    IF ~G1.isDragging THEN Emit(G1, "longPress", id) ELSE G1

\* ------------------------------------------------------------------ actions
Init ==
    /\ subject \in {"engine", "ipm"}
    /\ clock = 0
    /\ audioContext = (subject = "ipm")
    /\ master = NoMaster
    /\ upload = NoUpload
    /\ recorder = NoRecorder
    /\ gesture = NoGesture
    /\ sources = [s \in SrcIds |-> FreeSource]
    /\ nextSrc = 1
    /\ activeNodes = [n \in Nodes |-> None]
    /\ nodeStates = [n \in Nodes |-> NoNodeState]
    /\ ipmStates = [n \in Nodes |-> NoIpmState]
    /\ timeTrackers = [n \in Nodes |-> None]
    /\ intervals = [i \in SrcIds |-> NoInterval]
    /\ played = [n \in Nodes |-> 0]
    /\ resumes = [n \in Nodes |-> "none"]
    /\ sinceStop = [n \in Nodes |-> FALSE]
    /\ nodes = [n \in Nodes |-> NoNode]
    /\ calls = 0
    /\ last = NoOp

EngineVars == <<activeNodes, nodeStates>>
IpmVars == <<ipmStates, timeTrackers, intervals>>
History == <<played, resumes, sinceStop>>

SetEngine(E) ==
    /\ sources' = E.src
    /\ activeNodes' = E.act
    /\ nodeStates' = E.ns

SetManager(M) ==
    /\ sources' = M.src
    /\ ipmStates' = M.st
    /\ timeTrackers' = M.tt
    /\ intervals' = M.iv

\* AudioEngine.initialize
Initialize ==
    /\ subject = "engine"
    /\ ~audioContext
    /\ audioContext' = TRUE
    /\ master' = EngInitialize(master, "ok")
    /\ last' = [NoOp EXCEPT !.op = "initialize"]
    /\ UNCHANGED <<subject, upload, recorder, gesture, nodes, calls, clock, sources, nextSrc, EngineVars, IpmVars, History>>

\* The context's clock advances by one unit.
Tick ==
    /\ clock < MaxClock
    /\ clock' = clock + 1
    /\ sources' = AfterTick(sources, clock + 1)
    /\ played' = [n \in Nodes |->
                    IF nodeStates[n].isPlaying THEN played[n] + 1 ELSE played[n]]
    /\ last' = [NoOp EXCEPT !.op = "tick"]
    /\ UNCHANGED <<subject, master, upload, recorder, gesture, nodes, calls, audioContext, nextSrc, EngineVars, IpmVars, resumes, sinceStop>>

\* AudioEngine.playAudioBuffer(n, buffer, loop)
PlayAudioBuffer(n, loop) ==
    /\ subject = "engine"
    /\ IF ~audioContext
       THEN /\ last' = [NoOp EXCEPT !.op = "play", !.node = n,
                                    !.was = Mode(nodeStates[n]),
                                    !.afterStop = sinceStop[n]]
            /\ UNCHANGED <<sources, nextSrc, EngineVars, History>>
       ELSE /\ nextSrc <= MaxSources
            /\ \E outcome \in StopOutcomes(sources, activeNodes[n]) :
                 LET E == EngPlayAudioBuffer(Engine, n, loop, outcome, nextSrc, clock)
                     stale == AlreadyEnded(sources, activeNodes[n])
                 IN
                 /\ SetEngine(E)
                 /\ nextSrc' = IF E.thrown THEN nextSrc ELSE nextSrc + 1
                 /\ played' = IF E.thrown THEN played ELSE [played EXCEPT ![n] = 0]
                 /\ resumes' = IF E.thrown THEN resumes ELSE [resumes EXCEPT ![n] = "none"]
                 /\ sinceStop' = IF E.thrown THEN sinceStop ELSE [sinceStop EXCEPT ![n] = FALSE]
                 /\ last' = [NoOp EXCEPT !.op = "play", !.node = n,
                                         !.src = IF E.thrown THEN None ELSE nextSrc,
                                         !.was = Mode(nodeStates[n]),
                                         !.failed = stale,
                                         !.thrown = E.thrown,
                                         !.afterStop = sinceStop[n]]
    /\ UNCHANGED <<subject, master, upload, recorder, gesture, nodes, calls, clock, audioContext, IpmVars>>

\* AudioEngine.stopNode(n)
StopNode(n) ==
    /\ subject = "engine"
    /\ \E outcome \in StopOutcomes(sources, activeNodes[n]) :
         LET E == EngStopNode(Engine, n, outcome)
             stale == AlreadyEnded(sources, activeNodes[n])
         IN
         /\ SetEngine(E)
         /\ sinceStop' = IF E.thrown THEN sinceStop ELSE [sinceStop EXCEPT ![n] = TRUE]
         /\ last' = [NoOp EXCEPT !.op = "stopNode", !.node = n,
                                 !.was = Mode(nodeStates[n]),
                                 !.failed = stale,
                                 !.thrown = E.thrown,
                                 !.afterStop = sinceStop[n]]
    /\ UNCHANGED <<subject, master, upload, recorder, gesture, nodes, calls, clock, audioContext, nextSrc, IpmVars, played, resumes>>

\* AudioEngine.pauseNode(n)
PauseNode(n) ==
    /\ subject = "engine"
    /\ LET st == nodeStates[n] IN
       IF CanPause(st)
       THEN \E outcome \in StopOutcomes(sources, st.source) :
              LET E == EngPauseNode(Engine, n, outcome, clock)
                  stale == AlreadyEnded(sources, st.source)
              IN
              /\ SetEngine(E)
              /\ last' = [NoOp EXCEPT !.op = "pauseNode", !.node = n,
                                      !.was = Mode(st), !.position = ElapsedTime(st),
                                      !.ref = st.startTime,
                                      !.failed = stale,
                                      !.thrown = E.thrown,
                                      !.afterStop = sinceStop[n],
                                      !.arg = (st.source # None /\ sources[st.source].loop)]
       ELSE /\ last' = [NoOp EXCEPT !.op = "pauseNode", !.node = n,
                                    !.was = Mode(st), !.position = ElapsedTime(st),
                                    !.afterStop = sinceStop[n],
                                    !.arg = FALSE]
            /\ UNCHANGED <<sources, EngineVars>>
    /\ UNCHANGED <<subject, master, upload, recorder, gesture, nodes, calls, clock, audioContext, nextSrc, IpmVars, History>>

\* AudioEngine.resumeNode(n, buffer)
ResumeNode(n) ==
    /\ subject = "engine"
    /\ LET st == nodeStates[n] IN
       IF st.has /\ st.isPaused /\ audioContext
       THEN /\ nextSrc <= MaxSources
            /\ SetEngine(EngResumeNode(Engine, n, nextSrc, clock))
            /\ nextSrc' = nextSrc + 1
            /\ resumes' = [resumes EXCEPT ![n] =
                              IF @ = "fellBack" \/ ~MeaningfulOffset(st) THEN "fellBack"
                              ELSE "kept"]
            /\ sinceStop' = [sinceStop EXCEPT ![n] = FALSE]
            /\ last' = [NoOp EXCEPT !.op = "resumeNode", !.node = n, !.src = nextSrc,
                                    !.was = Mode(st), !.position = ElapsedTime(st),
                                    !.afterStop = sinceStop[n]]
       ELSE /\ last' = [NoOp EXCEPT !.op = "resumeNode", !.node = n,
                                    !.was = Mode(st), !.position = ElapsedTime(st),
                                    !.afterStop = sinceStop[n]]
            /\ UNCHANGED <<sources, nextSrc, EngineVars, resumes, sinceStop>>
    /\ UNCHANGED <<subject, master, upload, recorder, gesture, nodes, calls, clock, audioContext, IpmVars, played>>

\* The 'ended' event of source s is delivered to the engine's onended handler.
EngineEnded(s) ==
    /\ subject = "engine"
    /\ sources[s].status \in {"stopped", "finished"}
    /\ LET n == sources[s].node
           E == EngOnEnded([Engine EXCEPT !.src[s] = [FreeSource EXCEPT !.status = "done"]], n)
       IN  /\ SetEngine(E)
           /\ last' = [NoOp EXCEPT !.op = "ended", !.node = n, !.src = s,
                                   !.was = Mode(nodeStates[n]),
                                   !.natural = (sources[s].status = "finished"),
                                   !.afterStop = sinceStop[n]]
    /\ UNCHANGED <<subject, master, upload, recorder, gesture, nodes, calls, clock, audioContext, nextSrc, IpmVars, History>>

\* IndividualPlaybackManager.initializeNode(n)
InitializeNode(n) ==
    /\ subject = "ipm"
    /\ ipmStates' = [ipmStates EXCEPT ![n] = [NoIpmState EXCEPT !.has = TRUE]]
    /\ last' = [NoOp EXCEPT !.op = "initializeNode", !.node = n, !.was = Mode(ipmStates[n]), !.position = ipmStates[n].currentTime]
    /\ UNCHANGED <<subject, master, upload, recorder, gesture, nodes, calls, clock, audioContext, sources, nextSrc, EngineVars,
                   timeTrackers, intervals, History>>

\* the source a stop() in stopNode or pauseNode of the manager is made on
IpmTracked(n) == ipmStates[n].audioSource

\* IndividualPlaybackManager.playNode(n, buffer)
IpmPlay(n) ==
    /\ subject = "ipm"
    /\ ipmStates[n].has
    /\ nextSrc <= MaxSources
    /\ \E outcome \in StopOutcomes(sources, IpmTracked(n)) :
         LET M == IpmPlayNode(Manager, n, outcome, nextSrc, clock)
             stale == AlreadyEnded(sources, IpmTracked(n))
         IN
         /\ SetManager(M)
         /\ nextSrc' = IF M.thrown THEN nextSrc ELSE nextSrc + 1
         /\ last' = [NoOp EXCEPT !.op = "ipmPlay", !.node = n,
                                 !.afterStop = sinceStop[n],
                                 !.src = IF M.thrown THEN None ELSE nextSrc,
                                 !.was = Mode(ipmStates[n]), !.position = ipmStates[n].currentTime,
                                 !.failed = stale,
                                 !.thrown = M.thrown]
    /\ UNCHANGED <<subject, master, upload, recorder, gesture, nodes, calls, clock, audioContext, EngineVars, played, resumes>>
    /\ sinceStop' = [sinceStop EXCEPT ![n] = IF last'.src # None THEN FALSE ELSE @]

\* IndividualPlaybackManager.pauseNode(n)
IpmPause(n) ==
    /\ subject = "ipm"
    /\ ipmStates[n].has /\ ipmStates[n].isPlaying
    /\ \E outcome \in StopOutcomes(sources, IpmTracked(n)) :
         LET M == IpmPauseNode(Manager, n, outcome, clock)
             stale == AlreadyEnded(sources, IpmTracked(n))
         IN
         /\ SetManager(M)
         /\ last' = [NoOp EXCEPT !.op = "ipmPause", !.node = n,
                                 !.was = Mode(ipmStates[n]), !.position = ipmStates[n].currentTime,
                                 !.failed = stale,
                                 !.thrown = M.thrown]
    /\ UNCHANGED <<subject, master, upload, recorder, gesture, nodes, calls, clock, audioContext, nextSrc, EngineVars, History>>

\* IndividualPlaybackManager.stopNode(n)
IpmStop(n) ==
    /\ subject = "ipm"
    /\ ipmStates[n].has
    /\ \E outcome \in StopOutcomes(sources, IpmTracked(n)) :
         LET M == IpmStopNode(Manager, n, outcome)
             stale == AlreadyEnded(sources, IpmTracked(n))
         IN
         /\ SetManager(M)
         /\ last' = [NoOp EXCEPT !.op = "ipmStop", !.node = n,
                                 !.was = Mode(ipmStates[n]), !.position = ipmStates[n].currentTime,
                                 !.failed = stale,
                                 !.thrown = M.thrown]
    /\ UNCHANGED <<subject, master, upload, recorder, gesture, nodes, calls, clock, audioContext, nextSrc, EngineVars, played, resumes>>
    /\ sinceStop' = [sinceStop EXCEPT ![n] = ~last'.thrown \/ @]

\* IndividualPlaybackManager.toggleNode(n, buffer)
IpmToggle(n) ==
    /\ subject = "ipm"
    /\ ipmStates[n].has
    /\ ~ipmStates[n].isPlaying => nextSrc <= MaxSources
    /\ \E outcome \in StopOutcomes(sources, IpmTracked(n)) :
         LET M == IF ipmStates[n].isPlaying
                  THEN IpmPauseNode(Manager, n, outcome, clock)
                  ELSE IpmPlayNode(Manager, n, outcome, nextSrc, clock)
             created == ~ipmStates[n].isPlaying /\ ~M.thrown
             stale == AlreadyEnded(sources, IpmTracked(n))
         IN
         /\ SetManager(M)
         /\ nextSrc' = IF created THEN nextSrc + 1 ELSE nextSrc
         /\ last' = [NoOp EXCEPT !.op = "ipmToggle", !.node = n,
                                 !.src = IF created THEN nextSrc ELSE None,
                                 !.afterStop = sinceStop[n],
                                 !.was = Mode(ipmStates[n]),
                                 !.position = ipmStates[n].currentTime,
                                 !.failed = stale,
                                 !.thrown = M.thrown]
    /\ UNCHANGED <<subject, master, upload, recorder, gesture, nodes, calls, clock, audioContext, EngineVars, played, resumes>>
    /\ sinceStop' = [sinceStop EXCEPT ![n] = IF last'.src # None THEN FALSE ELSE @]

\* A time-tracking interval fires.
TrackerFires(i) ==
    /\ subject = "ipm"
    /\ intervals[i].on
    /\ SetManager(IpmTrackerFired(Manager, i, clock))
    /\ last' = [NoOp EXCEPT !.op = "tracker", !.node = intervals[i].node, !.src = i,
                            !.was = Mode(ipmStates[intervals[i].node])]
    /\ UNCHANGED <<subject, master, upload, recorder, gesture, nodes, calls, clock, audioContext, nextSrc, EngineVars, History>>

\* IndividualPlaybackManager.dispose()
Dispose ==
    /\ subject = "ipm"
    /\ \E outcome \in UNION {StopOutcomes(sources, IpmTracked(n)) : n \in Nodes} :
         LET M == IpmDispose(Manager, outcome) IN
         /\ SetManager(M)
         /\ last' = [NoOp EXCEPT !.op = "dispose", !.failed = (outcome = "throws"),
                                 !.thrown = M.thrown]
    /\ UNCHANGED <<subject, master, upload, recorder, gesture, nodes, calls, clock, audioContext, nextSrc, EngineVars, played, resumes>>
    /\ sinceStop' = [n \in Nodes |-> (ipmStates[n].has /\ ~last'.thrown) \/ sinceStop[n]]

\* The 'ended' event of source s is delivered to the manager's onended handler,
\* which calls stopNode.
IpmEnded(s) ==
    /\ subject = "ipm"
    /\ sources[s].status \in {"stopped", "finished"}
    /\ LET n == sources[s].node
           M0 == [Manager EXCEPT !.src[s] = [FreeSource EXCEPT !.status = "done"]]
       IN  \E outcome \in StopOutcomes(M0.src, IpmTracked(n)) :
             LET M == IpmStopNode(M0, n, outcome)
                 stale == AlreadyEnded(M0.src, IpmTracked(n))
             IN
             /\ SetManager(M)
             /\ last' = [NoOp EXCEPT !.op = "ipmEnded", !.node = n, !.src = s,
                                     !.was = Mode(ipmStates[n]), !.position = ipmStates[n].currentTime,
                                     !.natural = (sources[s].status = "finished"),
                                     !.failed = stale,
                                     !.thrown = M.thrown]
    /\ UNCHANGED <<subject, master, upload, recorder, gesture, nodes, calls, clock, audioContext, nextSrc, EngineVars, played, resumes>>
    /\ sinceStop' = [sinceStop EXCEPT ![sources[s].node] = ~last'.thrown \/ @]

Next ==
    \/ Initialize
    \/ Tick
    \/ \E n \in Nodes, loop \in BOOLEAN : PlayAudioBuffer(n, loop)
    \/ \E n \in Nodes : StopNode(n)
    \/ \E n \in Nodes : PauseNode(n)
    \/ \E n \in Nodes : ResumeNode(n)
    \/ \E s \in SrcIds : EngineEnded(s)
    \/ \E n \in Nodes : InitializeNode(n)
    \/ \E n \in Nodes : IpmPlay(n)
    \/ \E n \in Nodes : IpmPause(n)
    \/ \E n \in Nodes : IpmStop(n)
    \/ \E n \in Nodes : IpmToggle(n)
    \/ \E i \in SrcIds : TrackerFires(i)
    \/ Dispose
    \/ \E s \in SrcIds : IpmEnded(s)

Spec == Init /\ [][Next]_vars

\* ------------------------------------------- a graph of nodes: NodeManager
\* The client drives the node manager (create, connect, disconnect, remove,
\* play, stop) and, for per-node pause and resume, the engine behind it.
GraphInit ==
    /\ subject = "graph"
    /\ clock = 0
    /\ audioContext = FALSE
    /\ master = NoMaster
    /\ upload = NoUpload
    /\ recorder = NoRecorder
    /\ gesture = NoGesture
    /\ sources = [s \in GraphSrcIds |-> FreeSource]
    /\ nextSrc = 1
    /\ activeNodes = [n \in GraphNodes |-> None]
    /\ nodeStates = [n \in GraphNodes |-> NoNodeState]
    /\ ipmStates = [n \in Nodes |-> NoIpmState]
    /\ timeTrackers = [n \in Nodes |-> None]
    /\ intervals = [i \in SrcIds |-> NoInterval]
    /\ played = [n \in Nodes |-> 0]
    /\ resumes = [n \in Nodes |-> "none"]
    /\ sinceStop = [n \in Nodes |-> FALSE]
    /\ nodes = [n \in GraphNodes |-> NoNode]
    /\ calls = 0
    /\ last = NoOp

Fixed == <<subject, master, upload, recorder, gesture, nextSrc, IpmVars, History>>

SetGraph(G) ==
    /\ sources' = G.src
    /\ activeNodes' = G.act
    /\ nodeStates' = G.ns
    /\ nodes' = G.nodes

\* the nodes a call on n reaches: n and the nodes in its connections list
Reached(n) == {n} \cup {nodes[n].connections[i] : i \in 1..Len(nodes[n].connections)}

\* the sources playNode(n) creates: one for n and one for each connected node
\* whose flag is not set
SourcesNeeded(n) ==
    IF ~nodes[n].has THEN 0
    ELSE 1 + Cardinality({c \in Reached(n) \ {n} : nodes[c].has /\ NotPlaying(Graph, c)})

\* what the stop() calls of a handler that reaches the nodes ms can do
GraphStopOutcomes(ms) == UNION {StopOutcomes(sources, activeNodes[m]) : m \in ms}

\* AudioEngine.initialize, called by the application at start
GraphInitialize ==
    /\ subject = "graph"
    /\ ~audioContext
    /\ audioContext' = TRUE
    /\ master' = EngInitialize(master, "ok")
    /\ last' = [NoOp EXCEPT !.op = "initialize"]
    /\ UNCHANGED <<subject, upload, recorder, gesture, nextSrc, IpmVars, History, calls, clock, sources, EngineVars, nodes>>

\* The context's clock advances by one unit.
GraphTick ==
    /\ subject = "graph"
    /\ clock < MaxGraphClock
    /\ clock' = clock + 1
    /\ sources' = AfterTick(sources, clock + 1)
    /\ last' = [NoOp EXCEPT !.op = "tick"]
    /\ UNCHANGED <<Fixed, calls, audioContext, EngineVars, nodes>>

\* the ids createNode has handed out so far, in the order of NodeOrder
Issued == {m \in GraphNodes : nodes[m].has \/ nodes[m].gone}

\* NodeManager.createNode: loadAudioFile throws without an audio context; the
\* new node gets an id no node had before.
CreateNode(n) ==
    /\ subject = "graph"
    /\ audioContext
    /\ Cardinality(Issued) < Len(NodeOrder)
    /\ n = NodeOrder[Cardinality(Issued) + 1]
    /\ nodes' = [nodes EXCEPT ![n] = [NoNode EXCEPT !.has = TRUE]]
    /\ last' = [NoOp EXCEPT !.op = "createNode", !.node = n]
    /\ UNCHANGED <<Fixed, calls, clock, audioContext, sources, EngineVars>>

\* NodeManager.connectNodes(a, b)
ConnectNodes(a, b) ==
    /\ subject = "graph"
    /\ nodes' = NmConnectNodes(nodes, a, b)
    /\ last' = [NoOp EXCEPT !.op = "connectNodes", !.node = a, !.arg = b]
    /\ UNCHANGED <<Fixed, calls, clock, audioContext, sources, EngineVars>>

\* NodeManager.disconnectNodes(a, b)
DisconnectNodes(a, b) ==
    /\ subject = "graph"
    /\ nodes' = NmDisconnectNodes(nodes, a, b)
    /\ last' = [NoOp EXCEPT !.op = "disconnectNodes", !.node = a, !.arg = b]
    /\ UNCHANGED <<Fixed, calls, clock, audioContext, sources, EngineVars>>

\* NodeManager.removeNode(n)
RemoveNode(n) ==
    /\ subject = "graph"
    /\ \E outcome \in GraphStopOutcomes(Reached(n)) :
         LET G == NmRemoveNode(Graph, n, outcome) IN
         /\ SetGraph(G)
         /\ last' = [NoOp EXCEPT !.op = "removeNode", !.node = n, !.thrown = G.thrown]
    /\ UNCHANGED <<Fixed, calls, clock, audioContext>>

\* NodeManager.playNode(n, loop)
NmPlay(n, loop) ==
    /\ subject = "graph"
    /\ calls < MaxCalls
    /\ calls' = calls + 1
    /\ Cardinality(Unused(sources)) >= SourcesNeeded(n)
    /\ \E outcome \in GraphStopOutcomes(Reached(n)) :
         LET G == NmPlayNode(Graph, n, loop, outcome, clock) IN
         /\ SetGraph(G)
         /\ last' = [NoOp EXCEPT !.op = "playNode", !.node = n, !.arg = loop,
                                 !.thrown = G.thrown]
    /\ UNCHANGED <<Fixed, clock, audioContext>>

\* NodeManager.stopNode(n)
NmStop(n) ==
    /\ subject = "graph"
    /\ calls < MaxCalls
    /\ calls' = calls + 1
    /\ \E outcome \in GraphStopOutcomes(Reached(n)) :
         LET G == NmStopNode(Graph, n, outcome) IN
         /\ SetGraph(G)
         /\ last' = [NoOp EXCEPT !.op = "stopNode", !.node = n,
                                 !.thrown = G.thrown]
    /\ UNCHANGED <<Fixed, clock, audioContext>>

\* AudioEngine.pauseNode(n), called for one node of the graph
GraphPause(n) ==
    /\ subject = "graph"
    /\ calls < MaxCalls
    /\ calls' = calls + 1
    /\ LET st == nodeStates[n] IN
       IF CanPause(st)
       THEN \E outcome \in StopOutcomes(sources, st.source) :
              LET G == EngPauseNode(Graph, n, outcome, clock) IN
              /\ SetGraph(G)
              /\ last' = [NoOp EXCEPT !.op = "pauseNode", !.node = n, !.was = Mode(st),
                                      !.thrown = G.thrown]
       ELSE /\ last' = [NoOp EXCEPT !.op = "pauseNode", !.node = n, !.was = Mode(st)]
            /\ UNCHANGED <<sources, EngineVars, nodes>>
    /\ UNCHANGED <<Fixed, clock, audioContext>>

\* AudioEngine.resumeNode(n, buffer), called for one node of the graph
GraphResume(n) ==
    /\ subject = "graph"
    /\ calls < MaxCalls
    /\ calls' = calls + 1
    /\ LET st == nodeStates[n] IN
       IF st.has /\ st.isPaused /\ audioContext
       THEN /\ Unused(sources) # {}
            /\ SetGraph(EngResumeNode(Graph, n, NewSource(sources), clock))
            /\ last' = [NoOp EXCEPT !.op = "resumeNode", !.node = n, !.was = Mode(st),
                                    !.src = NewSource(sources)]
       ELSE /\ last' = [NoOp EXCEPT !.op = "resumeNode", !.node = n, !.was = Mode(st)]
            /\ UNCHANGED <<sources, EngineVars, nodes>>
    /\ UNCHANGED <<Fixed, clock, audioContext>>

\* AudioEngine.stopNode(n), called for one node of the graph
GraphStop(n) ==
    /\ subject = "graph"
    /\ calls < MaxCalls
    /\ calls' = calls + 1
    /\ \E outcome \in StopOutcomes(sources, activeNodes[n]) :
         LET G == EngStopNode(Graph, n, outcome) IN
         /\ SetGraph(G)
         /\ last' = [NoOp EXCEPT !.op = "engineStop", !.node = n,
                                 !.was = Mode(nodeStates[n]), !.thrown = G.thrown]
    /\ UNCHANGED <<Fixed, clock, audioContext>>

\* The 'ended' event of source s is delivered to the engine's onended handler.
GraphEnded(s) ==
    /\ subject = "graph"
    /\ sources[s].status \in {"stopped", "finished"}
    /\ LET n == sources[s].node
           G == EngOnEnded([Graph EXCEPT !.src[s] = [FreeSource EXCEPT !.status = "done"]], n)
       IN  /\ SetGraph(G)
           /\ last' = [NoOp EXCEPT !.op = "ended", !.node = n, !.src = s,
                                   !.was = Mode(nodeStates[n]),
                                   !.natural = (sources[s].status = "finished")]
    /\ UNCHANGED <<Fixed, calls, clock, audioContext>>

\* The graph is built and taken apart: any ids, equal or not, created or not,
\* are passed to connectNodes, disconnectNodes and removeNode.
GraphNext ==
    \/ GraphInitialize
    \/ \E n \in GraphNodes : CreateNode(n)
    \/ \E a, b \in GraphNodes : ConnectNodes(a, b)
    \/ \E a, b \in GraphNodes : DisconnectNodes(a, b)
    \/ \E n \in GraphNodes : RemoveNode(n)

GraphSpec == GraphInit /\ [][GraphNext]_vars

\* Three nodes are created and connected, then played and stopped through the
\* node manager within one instant of the context's clock.
ChainNext ==
    \/ GraphInitialize
    \/ \E n \in GraphNodes : CreateNode(n)
    \/ \E a \in GraphNodes : \E b \in GraphNodes \ {a} : ConnectNodes(a, b)
    \/ \E n \in GraphNodes, loop \in BOOLEAN : NmPlay(n, loop)
    \/ \E n \in GraphNodes : NmStop(n)
    \/ \E s \in GraphSrcIds : GraphEnded(s)

ChainSpec == GraphInit /\ [][ChainNext]_vars

\* Two nodes are created, connected, played and stopped through the node
\* manager and paused and resumed through the engine while time passes.
GroupNodes == {NodeOrder[1], NodeOrder[2]}

GroupNext ==
    \/ GraphInitialize
    \/ GraphTick
    \/ \E n \in GroupNodes : CreateNode(n)
    \/ \E a \in GroupNodes : \E b \in GroupNodes \ {a} : ConnectNodes(a, b)
    \/ \E n \in GroupNodes, loop \in BOOLEAN : NmPlay(n, loop)
    \/ \E n \in GroupNodes : NmStop(n)
    \/ \E n \in GroupNodes : GraphPause(n)
    \/ \E n \in GroupNodes : GraphResume(n)
    \/ \E s \in GraphSrcIds : GraphEnded(s)

GroupSpec == GraphInit /\ [][GroupNext]_vars

\* ------------------------------------------------- volume, mute and master
\* AudioEngine.initialize, called at any time; the constructor of the context
\* may throw.
MixInitialize(outcome) ==
    /\ subject = "graph"
    /\ master.made < MaxContexts
    /\ master' = EngInitialize(master, outcome)
    /\ audioContext' = (master'.context # None /\ master'.masterGain # None)
    /\ last' = [NoOp EXCEPT !.op = "initialize",
                            !.thrown = ~master.isInitialized /\ outcome = "throws"]
    /\ UNCHANGED <<subject, upload, recorder, gesture, nextSrc, IpmVars, History, calls, clock, sources,
                   EngineVars, nodes>>

\* AudioEngine.setMasterVolume(v)
SetMasterVolume(v) ==
    /\ subject = "graph"
    /\ master' = EngSetMasterVolume(master, v)
    /\ last' = [NoOp EXCEPT !.op = "setMasterVolume", !.arg = v]
    /\ UNCHANGED <<subject, upload, recorder, gesture, nextSrc, IpmVars, History, calls, clock, audioContext,
                   sources, EngineVars, nodes>>

\* AudioEngine.setNodeVolume(n, v)
SetNodeVolume(n, v) ==
    /\ subject = "graph"
    /\ SetGraph(EngSetNodeVolume(Graph, n, v))
    /\ last' = [NoOp EXCEPT !.op = "setNodeVolume", !.node = n, !.arg = v,
                            !.was = Mode(nodeStates[n])]
    /\ UNCHANGED <<Fixed, calls, clock, audioContext>>

\* AudioEngine.muteNode(n)
MuteNode(n) ==
    /\ subject = "graph"
    /\ SetGraph(EngMuteNode(Graph, n))
    /\ last' = [NoOp EXCEPT !.op = "muteNode", !.node = n, !.was = Mode(nodeStates[n])]
    /\ UNCHANGED <<Fixed, calls, clock, audioContext>>

\* AudioEngine.unmuteNode(n)
UnmuteNode(n) ==
    /\ subject = "graph"
    /\ SetGraph(EngUnmuteNode(Graph, n))
    /\ last' = [NoOp EXCEPT !.op = "unmuteNode", !.node = n, !.was = Mode(nodeStates[n])]
    /\ UNCHANGED <<Fixed, calls, clock, audioContext>>

MixNodes == {NodeOrder[1]}

\* One node is registered, played, paused, resumed and stopped while its volume
\* and mute flag and the master volume are set; initialize is called at any time.
MixNext ==
    \/ \E outcome \in {"ok", "throws"} : MixInitialize(outcome)
    \/ \E v \in Levels : SetMasterVolume(v)
    \/ GraphTick
    \/ \E n \in MixNodes : CreateNode(n)
    \/ \E n \in MixNodes : NmPlay(n, FALSE)
    \/ \E n \in MixNodes : NmStop(n)
    \/ \E n \in MixNodes : GraphPause(n)
    \/ \E n \in MixNodes : GraphResume(n)
    \/ \E s \in GraphSrcIds : GraphEnded(s)
    \/ \E n \in MixNodes : \E v \in Levels : SetNodeVolume(n, v)
    \/ \E n \in MixNodes : MuteNode(n)
    \/ \E n \in MixNodes : UnmuteNode(n)

MixSpec == GraphInit /\ [][MixNext]_vars

\* ------------------------------------------------------- the upload flow
\* The uploader hands over a first file; nothing is initialized yet.
UploadInit ==
    /\ subject = "upload"
    /\ clock = 0
    /\ audioContext = FALSE
    /\ master = NoMaster
    /\ \E size \in FileSizes : \E type \in FileTypes :
         upload = [NoUpload EXCEPT !.chosen = TRUE, !.size = size, !.type = type,
                                   !.uploads = 1]
    /\ recorder = NoRecorder
    /\ gesture = NoGesture
    /\ sources = [s \in GraphSrcIds |-> FreeSource]
    /\ nextSrc = 1
    /\ activeNodes = [n \in GraphNodes |-> None]
    /\ nodeStates = [n \in GraphNodes |-> NoNodeState]
    /\ ipmStates = [n \in Nodes |-> NoIpmState]
    /\ timeTrackers = [n \in Nodes |-> None]
    /\ intervals = [i \in SrcIds |-> NoInterval]
    /\ played = [n \in Nodes |-> 0]
    /\ resumes = [n \in Nodes |-> "none"]
    /\ sinceStop = [n \in Nodes |-> FALSE]
    /\ nodes = [n \in GraphNodes |-> NoNode]
    /\ calls = 0
    /\ last = NoOp

UploadFrame ==
    <<subject, clock, recorder, gesture, sources, nextSrc, EngineVars, IpmVars, History, calls>>

\* AudioEngine.initialize, called once by the application's mount effect, which
\* catches what it throws
UploadInitialize(outcome) ==
    /\ subject = "upload"
    /\ last.op = "init"
    /\ master' = EngInitialize(master, outcome)
    /\ audioContext' = (master'.context # None /\ master'.masterGain # None)
    /\ last' = [NoOp EXCEPT !.op = "initialize", !.failed = (outcome = "throws")]
    /\ UNCHANGED <<UploadFrame, upload, nodes>>

\* The uploader hands the next file to handleFileUpload.
ChooseFile(size, type) ==
    /\ subject = "upload"
    /\ upload.handled
    /\ upload.uploads < MaxUploads
    /\ upload' = [upload EXCEPT !.size = size, !.type = type, !.handled = FALSE,
                                !.validation = NoUpload.validation,
                                !.alert = NoError, !.thrown = FALSE,
                                !.uploads = @ + 1]
    /\ last' = [NoOp EXCEPT !.op = "chooseFile"]
    /\ UNCHANGED <<UploadFrame, audioContext, master, nodes>>

\* handleFileUpload of the application with NodeManager.createNode and
\* AudioEngine.loadAudioFile; decoded: whether decodeAudioData accepts the bytes
HandleFileUpload(decoded) ==
    /\ subject = "upload"
    /\ upload.chosen /\ ~upload.handled
    /\ LET v == ValidateAudioFile(upload.size, upload.type)
           done == [upload EXCEPT !.handled = TRUE, !.validation = v]
           id == NodeOrder[Cardinality(Issued) + 1]
       IN  IF ~v.isValid
           THEN /\ upload' = [done EXCEPT !.alert = v.error]
                /\ nodes' = nodes
           ELSE IF master.context = None
           THEN /\ upload' = [done EXCEPT !.thrown = TRUE]
                /\ nodes' = nodes
           ELSE IF ~decoded
           THEN /\ upload' = [done EXCEPT !.thrown = TRUE, !.decodes = @ + 1]
                /\ nodes' = nodes
           ELSE /\ upload' = [done EXCEPT !.decodes = @ + 1, !.canvasNodes = @ + 1]
                /\ nodes' = [nodes EXCEPT ![id] = [NoNode EXCEPT !.has = TRUE]]
    /\ last' = [NoOp EXCEPT !.op = "handleFileUpload"]
    /\ UNCHANGED <<UploadFrame, audioContext, master>>

UploadNext ==
    \/ \E outcome \in {"ok", "throws"} : UploadInitialize(outcome)
    \/ \E size \in FileSizes : \E type \in FileTypes : ChooseFile(size, type)
    \/ \E decoded \in BOOLEAN : HandleFileUpload(decoded)

UploadSpec == UploadInit /\ [][UploadNext]_vars

\* ----------------------------------------------------- the session recorder
RecInit ==
    /\ subject = "recorder"
    /\ clock = 0
    /\ audioContext = FALSE
    /\ master = NoMaster
    /\ upload = NoUpload
    /\ \E v \in {"microphone", "mixBus"} : recorder = [NoRecorder EXCEPT !.variant = v]
    /\ gesture = NoGesture
    /\ sources = [s \in GraphSrcIds |-> FreeSource]
    /\ nextSrc = 1
    /\ activeNodes = [n \in GraphNodes |-> None]
    /\ nodeStates = [n \in GraphNodes |-> NoNodeState]
    /\ ipmStates = [n \in Nodes |-> NoIpmState]
    /\ timeTrackers = [n \in Nodes |-> None]
    /\ intervals = [i \in SrcIds |-> NoInterval]
    /\ played = [n \in Nodes |-> 0]
    /\ resumes = [n \in Nodes |-> "none"]
    /\ sinceStop = [n \in Nodes |-> FALSE]
    /\ nodes = [n \in GraphNodes |-> NoNode]
    /\ calls = 0
    /\ last = NoOp

RecFrame ==
    <<subject, clock, upload, gesture, sources, nextSrc, EngineVars, IpmVars, History, calls, nodes>>

\* AudioEngine.initialize, called once by the application's mount effect, which
\* catches what it throws
RecInitialize(outcome) ==
    /\ subject = "recorder"
    /\ last.op = "init"
    /\ master' = EngInitialize(master, outcome)
    /\ audioContext' = (master'.context # None /\ master'.masterGain # None)
    /\ last' = [NoOp EXCEPT !.op = "initialize", !.failed = (outcome = "throws")]
    /\ UNCHANGED <<RecFrame, recorder>>

\* The isRecording prop goes true and the effect calls startRecording, which in
\* the microphone recorder runs up to its await of getUserMedia.
StartRequest ==
    /\ subject = "recorder"
    /\ ~recorder.isRecording
    /\ recorder.made + recorder.pending < MaxRecorders
    /\ LET R == [recorder EXCEPT !.isRecording = TRUE] IN
       recorder' = IF R.variant = "microphone"
                   THEN [R EXCEPT !.pending = @ + 1]
                   ELSE RecStartMixBus(R, master)
    /\ last' = [NoOp EXCEPT !.op = "startRequest"]
    /\ UNCHANGED <<RecFrame, audioContext, master>>

\* The isRecording prop goes false and the effect calls stopRecording.
StopRequest ==
    /\ subject = "recorder"
    /\ recorder.isRecording
    /\ recorder' = RecStop([recorder EXCEPT !.isRecording = FALSE])
    /\ last' = [NoOp EXCEPT !.op = "stopRequest",
                            !.src = IF recorder.ref # None /\ recorder.state[recorder.ref] = "recording"
                                    THEN recorder.ref ELSE None]
    /\ UNCHANGED <<RecFrame, audioContext, master>>

\* getUserMedia resolves with the microphone's stream and startRecording goes on.
StreamGranted ==
    /\ subject = "recorder"
    /\ recorder.pending > 0
    /\ recorder' = RecBegin([recorder EXCEPT !.pending = @ - 1], "microphone")
    /\ last' = [NoOp EXCEPT !.op = "streamGranted", !.src = recorder.made + 1]
    /\ UNCHANGED <<RecFrame, audioContext, master>>

\* getUserMedia rejects and startRecording's catch shows the alert.
StreamDenied ==
    /\ subject = "recorder"
    /\ recorder.pending > 0
    /\ recorder' = [recorder EXCEPT !.pending = @ - 1, !.alerted = TRUE]
    /\ last' = [NoOp EXCEPT !.op = "streamDenied"]
    /\ UNCHANGED <<RecFrame, audioContext, master>>

\* A recording MediaRecorder delivers the data of one time slice.
DataAvailable(r, size) ==
    /\ subject = "recorder"
    /\ recorder.state[r] = "recording"
    /\ Len(recorder.chunks) < MaxChunks
    /\ recorder' = RecData(recorder, r, size)
    /\ last' = [NoOp EXCEPT !.op = "dataavailable", !.src = r]
    /\ UNCHANGED <<RecFrame, audioContext, master>>

\* The events queued by stop() are delivered: the last dataavailable, then stop.
RecorderStopped(r, size) ==
    /\ subject = "recorder"
    /\ recorder.state[r] = "stopping"
    /\ size > 0 => Len(recorder.chunks) < MaxChunks
    /\ recorder' = RecOnStop(RecData(recorder, r, size), r)
    /\ last' = [NoOp EXCEPT !.op = "onstop", !.src = r]
    /\ UNCHANGED <<RecFrame, audioContext, master>>

RecNext ==
    \/ \E outcome \in {"ok", "throws"} : RecInitialize(outcome)
    \/ StartRequest
    \/ StopRequest
    \/ StreamGranted
    \/ StreamDenied
    \/ \E r \in RecIds : \E size \in {0, 1} : DataAvailable(r, size)
    \/ \E r \in RecIds : \E size \in {0, 1} : RecorderStopped(r, size)

RecSpec == RecInit /\ [][RecNext]_vars

\* --------------------------------------------------- the gesture recognizer
\* A GestureRecognizer alone: its client calls onStart, onMove and onEnd in any
\* order, the clock advances and the timeouts that are due fire.
GestureInit ==
    /\ subject = "gesture"
    /\ clock = Origin
    /\ audioContext = FALSE
    /\ master = NoMaster
    /\ upload = NoUpload
    /\ recorder = NoRecorder
    /\ gesture = NoGesture
    /\ sources = [s \in GraphSrcIds |-> FreeSource]
    /\ nextSrc = 1
    /\ activeNodes = [n \in GraphNodes |-> None]
    /\ nodeStates = [n \in GraphNodes |-> NoNodeState]
    /\ ipmStates = [n \in Nodes |-> NoIpmState]
    /\ timeTrackers = [n \in Nodes |-> None]
    /\ intervals = [i \in SrcIds |-> NoInterval]
    /\ played = [n \in Nodes |-> 0]
    /\ resumes = [n \in Nodes |-> "none"]
    /\ sinceStop = [n \in Nodes |-> FALSE]
    /\ nodes = [n \in GraphNodes |-> NoNode]
    /\ calls = 0
    /\ last = NoOp

GestureFrame ==
    <<subject, audioContext, master, upload, recorder, sources, nextSrc, EngineVars,
      IpmVars, History, calls, nodes>>

\* Date.now() advances
GestureTick(d) ==
    /\ subject = "gesture"
    /\ clock + d <= MaxGestureTime
    /\ clock' = clock + d
    /\ gesture' = [gesture EXCEPT !.out = "-"]
    /\ last' = [NoOp EXCEPT !.op = "gestureTick"]
    /\ UNCHANGED GestureFrame

\* GestureRecognizer.onStart(x, y)
OnStart ==
    /\ subject = "gesture"
    /\ gesture.made < MaxPresses
    /\ gesture' = GestOnStart(gesture, StartPoint, clock)
    /\ last' = [NoOp EXCEPT !.op = "onStart", !.ref = gesture'.made]
    /\ UNCHANGED <<GestureFrame, clock>>

\* GestureRecognizer.onMove(x, y)
OnMove(p) ==
    /\ subject = "gesture"
    /\ gesture' = GestOnMove(gesture, p)
    /\ last' = [NoOp EXCEPT !.op = "onMove", !.ref = gesture.made,
                            !.arg = gesture'.out]
    /\ UNCHANGED <<GestureFrame, clock>>

\* GestureRecognizer.onEnd(x, y)
OnEnd ==
    /\ subject = "gesture"
    /\ gesture' = GestOnEnd(gesture, clock)
    /\ last' = [NoOp EXCEPT !.op = "onEnd", !.ref = gesture.made,
                            !.arg = gesture'.out]
    /\ UNCHANGED <<GestureFrame, clock>>

\* A timeout that is due fires
LongPressTimerFires(id) ==
    /\ subject = "gesture"
    /\ \E t \in gesture.timers : t.id = id /\ clock >= t.due
    /\ gesture' = GestLongPress(gesture, id)
    /\ last' = [NoOp EXCEPT !.op = "longPressTimer", !.ref = id,
                            !.arg = gesture'.out]
    /\ UNCHANGED <<GestureFrame, clock>>

GestureNext ==
    \/ \E d \in Steps : GestureTick(d)
    \/ OnStart
    \/ \E p \in Points : OnMove(p)
    \/ OnEnd
    \/ \E id \in PressIds : LongPressTimerFires(id)

GestureSpec == GestureInit /\ [][GestureNext]_vars

\* The ids that have no record in the node manager: never created, or removed
Absent == {n \in GraphNodes : ~nodes[n].has}

\* Two nodes are created, connected, disconnected and removed while they are
\* played and stopped through the node manager; the engine's own stopNode,
\* pauseNode and resumeNode are called with any id, with or without a record,
\* within one instant of the context's clock.
EditNext ==
    \/ GraphInitialize
    \/ \E n \in GroupNodes : CreateNode(n)
    \/ \E a \in GroupNodes : \E b \in GroupNodes \ {a} : ConnectNodes(a, b)
    \/ \E a \in GroupNodes : \E b \in GroupNodes \ {a} : DisconnectNodes(a, b)
    \/ \E n \in GroupNodes : RemoveNode(n)
    \/ \E n \in GroupNodes : NmPlay(n, FALSE)
    \/ \E n \in GroupNodes : NmStop(n)
    \/ \E n \in GraphNodes : GraphStop(n)
    \/ \E n \in GraphNodes : GraphPause(n)
    \/ \E n \in GraphNodes : GraphResume(n)
    \/ \E s \in GraphSrcIds : GraphEnded(s)

EditSpec == GraphInit /\ [][EditNext]_vars


\* ------------------------------------------------------------------ claims
\* C1: in AudioEngine no node id ever has more than one started-and-not-yet-ended
\* playback source, whatever play/pause/resume/stop calls and 'ended' deliveries
\* came before.
C1_AtMostOneLiveSource ==
    subject = "engine" => \A n \in Nodes : Cardinality(LiveSourcesOf(n)) <= 1

\* C2: immediately after AudioEngine.stopNode(id) returns, no live playback
\* source exists for id.
C2_StopSilencesNode ==
    (last.op = "stopNode" /\ ~last.thrown) => LiveSourcesOf(last.node) = {}

\* C3: the 'ended' delivery of a source that was explicitly stopped changes
\* neither the transport flags nor the tracked source nor the activeNodes entry
\* of a newer source created for the same node in the meantime.
C3_StaleEndedIsNoOp ==
    [][\A s \in SrcIds :
         LET n == sources[s].node
             newer == IF subject = "engine" THEN activeNodes[n]
                      ELSE ipmStates[n].audioSource
         IN  (/\ sources[s].status = "stopped"
              /\ sources'[s].status = "done"
              /\ newer \notin {None, s})
             => /\ activeNodes'[n] = activeNodes[n]
                /\ nodeStates'[n] = nodeStates[n]
                /\ ipmStates'[n] = ipmStates[n]
                /\ sources'[newer] = sources[newer]]_vars

\* The unit the last operation created: live, of the last operation's node,
\* started now at the given asset offset, and the one the engine tracks.
EngineCreatedAt(offset) ==
    /\ last.src # None
    /\ nextSrc = last.src + 1
    /\ sources[last.src] = [status |-> "live", node |-> last.node,
                            loop |-> sources[last.src].loop, offset |-> offset,
                            startedAt |-> clock]
    /\ activeNodes[last.node] = last.src
    /\ nodeStates[last.node].source = last.src
    /\ Mode(nodeStates[last.node]) = "playing"

\* pauseNode never resets the offset: after pauseNode on a Playing node the
\* stored elapsed is the clock at the pause minus the start reference.
PauseKeepsElapsed ==
    (last.op = "pauseNode" /\ last.was = "playing" /\ ~last.thrown)
    => /\ Mode(nodeStates[last.node]) = "paused"
       /\ ElapsedTime(nodeStates[last.node]) = clock - last.ref
       /\ nodeStates[last.node].startTime = last.ref

\* After a stopNode, resumeNode creates no unit and the next unit created for
\* the node starts at asset offset 0.
AfterStopStartsAtZero ==
    /\ (last.op = "resumeNode" /\ last.afterStop) => last.src = None
    /\ (last.op \in {"play", "ipmPlay", "ipmToggle"} /\ last.afterStop /\ last.src # None)
       => /\ sources[last.src].status = "live"
          /\ sources[last.src].offset = 0
          /\ sources[last.src].startedAt = clock
          /\ subject = "engine" => nodeStates[last.node].startTime = clock

\* C4: stopNode always resets the resume offset to 0: after stopNode in any
\* state the stored elapsed is 0, resumeNode creates no unit and the next unit
\* created for the node starts at asset offset 0; pauseNode never resets the
\* offset.
C4_StopZeroesElapsed ==
    /\ (last.op = "stopNode" /\ ~last.thrown /\ last.was # "absent")
       => ElapsedTime(nodeStates[last.node]) = 0
    /\ (last.op = "ipmStop" /\ ~last.thrown) => ipmStates[last.node].currentTime = 0
    /\ AfterStopStartsAtZero
    /\ PauseKeepsElapsed

\* The part of C4 that does not read the engine's stored timing: after stopNode
\* the node is neither Playing nor Paused (and the manager's currentTime is 0),
\* resumeNode creates no unit, the next unit starts at offset 0, and pauseNode
\* keeps the elapsed time.
StopLeavesNothingToResume ==
    /\ (last.op = "stopNode" /\ ~last.thrown)
       => Mode(nodeStates[last.node]) \in {"stopped", "absent"}
    /\ (last.op = "ipmStop" /\ ~last.thrown)
       => /\ Mode(ipmStates[last.node]) = "stopped"
          /\ ipmStates[last.node].currentTime = 0
    /\ AfterStopStartsAtZero
    /\ PauseKeepsElapsed

\* C5: resumeNode on a node paused at elapsed e, Epsilon < e < duration, creates
\* exactly one source, started at asset offset e, and the node is Playing.
C5_ResumeStartsAtElapsed ==
    (/\ last.op = "resumeNode"
     /\ last.was = "paused"
     /\ last.position > Epsilon
     /\ last.position < BufferDuration)
    => EngineCreatedAt(last.position)

C5_Witness ==
    /\ last.op = "resumeNode"
    /\ last.was = "paused"
    /\ last.position > Epsilon
    /\ last.position < BufferDuration
    /\ nodeStates[last.node].startTime > 0
    /\ last.src # None

\* C6 as claimed: the elapsed value computed at each pause equals the time the
\* node spent Playing since its last fresh play.
C6_ElapsedIsPlayedTime ==
    (last.op = "pauseNode" /\ last.was = "playing" /\ ~last.thrown)
    => ElapsedTime(nodeStates[last.node]) = played[last.node]

\* C6 as amended: the elapsed value computed at a pause equals the time the
\* node spent Playing since its last fresh play, provided every resume since
\* that play found a stored elapsed strictly between epsilon and the duration
\* (a resume that starts at offset 0 restarts the count).
C6_ElapsedIsPlayedTimeWhenKept ==
    (/\ last.op = "pauseNode"
     /\ last.was = "playing"
     /\ ~last.thrown
     /\ resumes[last.node] # "fellBack")
    => ElapsedTime(nodeStates[last.node]) = played[last.node]

\* C6 witness: a pause after a resume that kept the position, with more Playing
\* time than epsilon.  Before this pause pauseTime - startTime was the elapsed
\* value of the previous pause minus the time the node then stayed Paused; it
\* is at most epsilon although the previous elapsed was above epsilon, so the
\* node stayed Paused for some time.
C6_Witness ==
    /\ last.op = "pauseNode"
    /\ last.was = "playing"
    /\ resumes[last.node] = "kept"
    /\ last.position <= Epsilon
    /\ played[last.node] > Epsilon + 1
    /\ ElapsedTime(nodeStates[last.node]) = played[last.node]

\* C7: resumeNode on a Paused node whose stored elapsed is at least the
\* duration, or not above epsilon, creates exactly one source started at offset
\* 0, sets the start reference to the clock, and the node is Playing.
C7_DegenerateResumeStartsAtZero ==
    (/\ last.op = "resumeNode"
     /\ last.was = "paused"
     /\ (last.position >= BufferDuration \/ last.position <= Epsilon))
    => /\ EngineCreatedAt(0)
       /\ nodeStates[last.node].startTime = clock

C7_Witness ==
    /\ last.op = "resumeNode"
    /\ last.was = "paused"
    /\ last.position >= BufferDuration
    /\ last.src # None
    /\ clock > last.position

\* C8: a node in Paused state holds a stored elapsed e with 0 <= e <= duration.
C8_PausedElapsedWithinDuration ==
    \A n \in Nodes :
        (subject = "engine" /\ Mode(nodeStates[n]) = "paused")
        => /\ ElapsedTime(nodeStates[n]) >= 0
           /\ ElapsedTime(nodeStates[n]) <= BufferDuration

\* C9: after the 'ended' callback of a source that reached end-of-asset on its
\* own, the node is in the state stopNode produces: not Playing, not Paused, no
\* tracked source.
C9_NaturalEndIsStop ==
    /\ (last.op = "ended" /\ last.natural)
       => /\ Mode(nodeStates[last.node]) = "stopped"
          /\ nodeStates[last.node].source = None
          /\ activeNodes[last.node] = None
    /\ (last.op = "ipmEnded" /\ last.natural /\ ~last.thrown /\ last.was # "absent")
       => /\ Mode(ipmStates[last.node]) = "stopped"
          /\ ipmStates[last.node].audioSource = None
          /\ ipmStates[last.node].currentTime = 0

\* C10: stopNode or pauseNode on a node whose source has already ended raises
\* nothing and completes the transition: stopNode leaves the node Stopped with
\* its tracking entry removed, pauseNode leaves it Paused with no tracked live
\* source.
C10_StopOfEndedSourceTolerated ==
    /\ (last.op \in {"stopNode", "pauseNode", "ipmStop", "ipmPause"} /\ last.failed)
       => ~last.thrown
    /\ (last.op = "stopNode" /\ last.failed)
       => /\ Mode(nodeStates[last.node]) = "stopped"
          /\ activeNodes[last.node] = None
          /\ nodeStates[last.node].source = None
    /\ (last.op = "pauseNode" /\ last.failed)
       => /\ Mode(nodeStates[last.node]) = "paused"
          /\ activeNodes[last.node] = None
          /\ LiveSourcesOf(last.node) \cap {nodeStates[last.node].source} = {}
    /\ (last.op = "ipmStop" /\ last.failed)
       => /\ Mode(ipmStates[last.node]) = "stopped"
          /\ ipmStates[last.node].audioSource = None
    /\ (last.op = "ipmPause" /\ last.failed)
       => /\ Mode(ipmStates[last.node]) = "paused"
          /\ ipmStates[last.node].audioSource = None

\* C10 witness: stopNode was called while the source it tracked had already
\* reached the end of its asset.
C10_Witness ==
    /\ last.op = "stopNode"
    /\ last.failed
    /\ last.was = "playing"

\* C11: a transport call that asks for the state the node is already in is a
\* no-op: pauseNode on a Paused or Stopped node, resumeNode on a Playing or
\* Stopped node and stopNode on a Stopped node leave the node's record, the
\* tracked sources and every source as they were (no source is created or
\* stopped); in particular a second pauseNode changes nothing.
C11_SameStateCallsAreNoOps ==
    [][ /\ subject = "engine"
        /\ \/ last'.op = "pauseNode" /\ last'.was \in {"paused", "stopped", "absent"}
           \/ last'.op = "resumeNode" /\ last'.was \in {"playing", "stopped", "absent"}
           \/ last'.op = "stopNode" /\ last'.was \in {"stopped", "absent"}
        => UNCHANGED <<sources, nextSrc, activeNodes, nodeStates>> ]_vars

\* a pauseNode was applied to a node that a previous pauseNode had paused
C11_Witness ==
    /\ subject = "engine"
    /\ last.op = "pauseNode"
    /\ last.was = "paused"
    /\ nodeStates[last.node].isPaused
    /\ nodeStates[last.node].source # None

\* b is in the connections list of the created node a
Connected(a, b) == nodes[a].has /\ nodes[b].has /\ Includes(nodes[a].connections, b)

\* node n has a sounding source that the engine tracks
PlayingLive(act, ns, srcs, n) ==
    /\ Mode(ns[n]) = "playing"
    /\ act[n] # None
    /\ srcs[act[n]].status = "live"

\* C12: when a and b are connected and b is Stopped or Paused in the engine
\* (stopped by a call, by the natural end of its asset, or paused through the
\* engine), NodeManager.playNode(a) leaves b Playing with a live source.
C12_PlayStartsIdleNeighbour ==
    [][ \A a, b \in GroupNodes :
          /\ last'.op = "playNode" /\ last'.node = a
          /\ a # b /\ Connected(a, b)
          /\ Mode(nodeStates[b]) \in {"stopped", "paused"}
          => PlayingLive(activeNodes', nodeStates', sources', b) ]_vars

\* the step leaves node m as it was: its engine record, its tracked source, its
\* flag and connections in the node manager, and every source created for it; no
\* source is created for it
Untouched(m) ==
    /\ nodeStates'[m] = nodeStates[m]
    /\ activeNodes'[m] = activeNodes[m]
    /\ nodes'[m] = nodes[m]
    /\ \A s \in DOMAIN sources :
         sources[s].node = m \/ sources'[s].node = m => sources'[s] = sources[s]

\* C13: when a and b are connected and b is Playing, NodeManager.playNode(a)
\* does not stop b's source, creates no source for b and leaves b's record, its
\* playback-start reference included, unchanged.
C13_PlayKeepsPlayingNeighbour ==
    [][ \A a, b \in GroupNodes :
          /\ last'.op = "playNode" /\ last'.node = a
          /\ a # b /\ Connected(a, b)
          /\ Mode(nodeStates[b]) = "playing"
          => Untouched(b) ]_vars

\* playNode was called on a node whose connected neighbour had been playing for
\* some time on a source that still sounds
C13_Witness ==
    /\ last.op = "playNode"
    /\ \E b \in GroupNodes :
         /\ b # last.node /\ Connected(last.node, b)
         /\ PlayingLive(activeNodes, nodeStates, sources, b)
         /\ sources[activeNodes[b]].startedAt < clock
         /\ nodeStates[b].startTime < clock
         /\ nodeStates[last.node].startTime = clock

\* C14: after NodeManager.stopNode(a) every node b connected to a is Stopped,
\* whatever it was before: no source of b sounds, b is neither Playing nor
\* Paused in the engine, and the node manager's flag of b is false.
C14_StopStopsNeighbour ==
    subject = "graph" /\ last.op = "stopNode" /\ ~last.thrown
    => \A b \in GroupNodes :
         b # last.node /\ Connected(last.node, b)
         => /\ LiveSourcesOf(b) = {}
            /\ Mode(nodeStates[b]) \in {"stopped", "absent"}
            /\ activeNodes[b] = None
            /\ ~nodes[b].isPlaying

\* C15: propagation is one hop.  NodeManager.playNode(a) and
\* NodeManager.stopNode(a) leave every node c other than a that is not in a's
\* connections list as it was (engine record, tracked source, sources, flag),
\* in particular a node c connected only to a neighbour b of a.
C15_PropagationIsOneHop ==
    [][ \A a, c \in GraphNodes :
          /\ last'.op \in {"playNode", "stopNode"} /\ last'.node = a
          /\ c # a /\ ~Includes(nodes[a].connections, c)
          => Untouched(c) ]_vars

\* stopNode(a) was called on the chain a-b, b-c: b was stopped with a, and c,
\* which is not connected to a, still plays
C15_Witness ==
    /\ last.op = "stopNode"
    /\ \E b, c \in GraphNodes :
         /\ Cardinality({last.node, b, c}) = 3
         /\ Connected(last.node, b) /\ Connected(b, c) /\ ~Connected(last.node, c)
         /\ nodeStates[b].has /\ Mode(nodeStates[b]) = "stopped"
         /\ PlayingLive(activeNodes, nodeStates, sources, c)
         /\ nodes[c].isPlaying

\* C16: a node b that NodeManager.playNode(a, loop) starts because it is
\* connected to a gets a source that does not loop, whatever the loop argument.
C16_NeighbourStartsNonLooping ==
    [][ \A a, b \in GroupNodes :
          /\ last'.op = "playNode" /\ last'.node = a
          /\ a # b /\ Connected(a, b)
          /\ activeNodes'[b] \notin {None, activeNodes[b]}
          => ~sources'[activeNodes'[b]].loop ]_vars

\* C17: AudioEngine.pauseNode(n) and AudioEngine.resumeNode(n) change node n
\* only: every other node, connected to n or not, keeps its engine record
\* (flags, startTime, pauseTime, source), its tracked source, its sources and
\* its entry in the node manager.
C17_PauseResumeTouchOneNode ==
    [][ \A n, m \in GroupNodes :
          /\ last'.op \in {"pauseNode", "resumeNode"} /\ last'.node = n
          /\ m # n
          => Untouched(m) ]_vars

\* a playing node was resumed after a pause, and the node connected to it plays
\* on, on the source it had before the pause
C17_Witness ==
    /\ last.op = "resumeNode"
    /\ last.src # None
    /\ \E m \in GroupNodes :
         /\ m # last.node /\ Connected(last.node, m)
         /\ PlayingLive(activeNodes, nodeStates, sources, m)
         /\ sources[activeNodes[m]].startedAt < nodeStates[last.node].pauseTime
         /\ nodeStates[last.node].pauseTime < clock

\* C18: after any sequence of createNode, connectNodes, disconnectNodes and
\* removeNode calls the adjacency is symmetric: b is in a's connections list
\* exactly when a is in b's.
C18_AdjacencyIsSymmetric ==
    \A a, b \in GraphNodes :
       Includes(nodes[a].connections, b) <=> Includes(nodes[b].connections, a)

\* a node was removed while two other nodes stay connected to each other
C18_Witness ==
    /\ last.op = "removeNode"
    /\ nodes[last.node].gone
    /\ \E a, b \in GraphNodes : a # b /\ Connected(a, b) /\ Connected(b, a)

\* no id occurs twice in the list
NoDuplicates(seq) == \A i, j \in 1..Len(seq) : i # j => seq[i] # seq[j]

\* C19: connections are deduplicated.  After every call no node's connections
\* list holds an id more than once, and connectNodes(a, b) on a pair that is
\* already connected, in either order, changes nothing.
C19_ConnectionsDeduplicated ==
    [][ /\ \A n \in GraphNodes : NoDuplicates(nodes'[n].connections)
        /\ \A a, b \in GraphNodes :
             /\ last'.op = "connectNodes" /\ last'.node = a /\ last'.arg = b
             /\ Connected(a, b) \/ Connected(b, a)
             => nodes' = nodes ]_vars

\* C20: connectNodes(a, a) is rejected: the call leaves every connections list
\* as it was, and no node's connections list ever holds the node's own id.
C20_SelfConnectionRejected ==
    [][ /\ last'.op = "connectNodes" /\ last'.node = last'.arg => nodes' = nodes
        /\ \A n \in GraphNodes : ~Includes(nodes'[n].connections, n) ]_vars

\* C21: after disconnectNodes(a, b) neither node lists the other, and when the
\* pair was not connected nothing changes; NodeManager.playNode(a) and
\* stopNode(a) on the disconnected pair leave b's engine record, tracked source,
\* sources and node-manager record unchanged.
C21_DisconnectSeparates ==
    [][ \A a, b \in GroupNodes :
          /\ ( /\ last'.op = "disconnectNodes" /\ last'.node = a /\ last'.arg = b
               => /\ ~Includes(nodes'[a].connections, b)
                  /\ ~Includes(nodes'[b].connections, a)
                  /\ ( ~Includes(nodes[a].connections, b) /\ ~Includes(nodes[b].connections, a)
                       => UNCHANGED <<nodes, sources, activeNodes, nodeStates>> ) )
          /\ ( /\ last'.op \in {"playNode", "stopNode"} /\ last'.node = a
               /\ a # b /\ nodes[a].has /\ nodes[b].has
               /\ ~Includes(nodes[a].connections, b)
               => Untouched(b) ) ]_vars

\* b was started as a's neighbour (it holds the second source), the pair was
\* disconnected, and stopNode(a) then left b playing
C21_Witness ==
    /\ last.op = "stopNode"
    /\ \E b \in GroupNodes :
         /\ b # last.node /\ nodes[last.node].has /\ nodes[b].has
         /\ ~Connected(last.node, b) /\ ~Connected(b, last.node)
         /\ Mode(nodeStates[last.node]) = "stopped" /\ nodeStates[last.node].has
         /\ PlayingLive(activeNodes, nodeStates, sources, b)
         /\ activeNodes[b] = 2 /\ sources[1].node = last.node
         /\ sources[2].startedAt = sources[1].startedAt
         /\ calls = 2

\* every id in a node's connections list is the id of a node that has a record
NoDanglingConnection ==
    \A m \in GraphNodes :
      nodes[m].has =>
        \A i \in 1..Len(nodes[m].connections) : nodes[nodes[m].connections[i]].has

\* C22: after removeNode(x) no source of x sounds, x has no record and no
\* remaining node lists x; in every state each listed id has a record.
C22_RemoveLeavesNothingBehind ==
    /\ NoDanglingConnection
    /\ ( subject = "graph" /\ last.op = "removeNode" /\ ~last.thrown
         => /\ LiveSourcesOf(last.node) = {}
            /\ ~nodes[last.node].has
            /\ \A m \in GraphNodes : ~Includes(nodes[m].connections, last.node) )

\* C27: NodeManager.playNode and stopNode and AudioEngine.stopNode, pauseNode
\* and resumeNode, called with an id that has no record (never created, or
\* removed), throw nothing, create and stop no source and leave every node's
\* engine record, tracked source and node-manager record unchanged.
C27_AbsentIdIsNoOp ==
    [][ /\ subject = "graph"
        /\ last'.op \in {"playNode", "stopNode", "engineStop", "pauseNode", "resumeNode"}
        /\ last'.node \in Absent
        => /\ ~last'.thrown
           /\ UNCHANGED <<sources, activeNodes, nodeStates, nodes>> ]_vars

\* playNode was called with the id of a removed node, which the engine had
\* played before, while another node is playing
C27_Witness ==
    /\ last.op = "playNode"
    /\ last.node \in Absent /\ nodes[last.node].gone /\ nodeStates[last.node].has
    /\ \E b \in GroupNodes \ {last.node} :
         nodes[b].has /\ PlayingLive(activeNodes, nodeStates, sources, b)

\* v brought into [0,1], written without the engine's clamp
Clamped(v, stored) ==
    /\ (v < 0 => stored = 0)
    /\ (v > Unity => stored = Unity)
    /\ (0 <= v /\ v <= Unity => stored = v)

\* C23: setNodeVolume(n, v) on a muted node stores v clamped to [0,1] and leaves
\* the gain stage at 0 and the node muted; unmuteNode sets the gain stage to the
\* stored volume; muteNode and unmuteNode leave the stored volume unchanged.
C23_MuteKeepsVolume ==
    [][ \A n \in MixNodes :
          /\ ( last'.op = "setNodeVolume" /\ last'.node = n /\ nodeStates[n].isMuted
               => /\ Clamped(last'.arg, nodeStates'[n].volume)
                  /\ nodeStates'[n].gain = 0
                  /\ nodeStates'[n].isMuted )
          /\ ( last'.op = "unmuteNode" /\ last'.node = n /\ nodeStates[n].has
               => /\ nodeStates'[n].gain = nodeStates[n].volume
                  /\ ~nodeStates'[n].isMuted )
          /\ ( last'.op \in {"muteNode", "unmuteNode"} /\ last'.node = n
               => nodeStates'[n].volume = nodeStates[n].volume ) ]_vars

\* setNodeVolume(n, 1.5) was called on a playing, muted node: the stored volume
\* is 1 and the gain stage is at 0
C23_Witness ==
    /\ last.op = "setNodeVolume" /\ last.arg = 15
    /\ LET st == nodeStates[last.node] IN
         /\ st.has /\ st.isPlaying /\ st.isMuted
         /\ st.volume = Unity /\ st.gain = 0

\* the transport flags, the source and the timing fields of two engine records
SameTransport(a, b) ==
    /\ a.has = b.has /\ a.source = b.source
    /\ a.isPlaying = b.isPlaying /\ a.isPaused = b.isPaused
    /\ a.startTime = b.startTime /\ a.pauseTime = b.pauseTime

\* setNodeVolume, muteNode and unmuteNode change no transport flag, source or
\* timing field, and the stored volume is always within [0,1]
VolumeCallsKeepTransport ==
    [][ /\ \A n \in GraphNodes : 0 <= nodeStates'[n].volume /\ nodeStates'[n].volume <= Unity
        /\ ( last'.op \in {"setNodeVolume", "muteNode", "unmuteNode"}
             => /\ UNCHANGED <<sources, activeNodes, nodes>>
                /\ \A n \in GraphNodes : SameTransport(nodeStates'[n], nodeStates[n]) ) ]_vars

\* C24: setNodeVolume, muteNode and unmuteNode change no transport flag, source
\* or timing field, keep the stored volume within [0,1], and take effect for a
\* registered node whatever its transport state, a node that was never played
\* included.
C24_VolumeCallsWorkInEveryState ==
    [][ /\ \A n \in GraphNodes : 0 <= nodeStates'[n].volume /\ nodeStates'[n].volume <= Unity
        /\ ( last'.op \in {"setNodeVolume", "muteNode", "unmuteNode"}
             => /\ UNCHANGED <<sources, activeNodes, nodes>>
                /\ \A n \in GraphNodes : SameTransport(nodeStates'[n], nodeStates[n]) )
        /\ \A n \in MixNodes :
             nodes[n].has /\ last'.node = n
             => /\ (last'.op = "setNodeVolume" => Clamped(last'.arg, nodeStates'[n].volume))
                /\ (last'.op = "muteNode" => nodeStates'[n].isMuted)
                /\ (last'.op = "unmuteNode" => ~nodeStates'[n].isMuted) ]_vars

\* C25: once initialize has succeeded, no step replaces the context or the
\* master gain stage, and a later initialize changes nothing, the master level
\* included, and throws nothing; the first successful initialize leaves the
\* master level at 0.7, and the master level stays within [0,1].
C25_InitializeIsIdempotent ==
    [][ /\ ( master.isInitialized
             => /\ master'.isInitialized
                /\ master'.context = master.context
                /\ master'.masterGain = master.masterGain
                /\ master'.made = master.made
                /\ (last'.op = "initialize" => master' = master /\ ~last'.thrown) )
        /\ ( ~master.isInitialized /\ master'.isInitialized
             => /\ last'.op = "initialize"
                /\ master'.level = MasterDefault
                /\ master'.context # None /\ master'.masterGain # None )
        /\ 0 <= master'.level /\ master'.level <= Unity ]_vars

\* initialize was called again after setMasterVolume(0.3): one context was
\* constructed and the master level is still 0.3
C25_Witness ==
    /\ last.op = "initialize"
    /\ master.isInitialized /\ master.made = 1 /\ master.context = 1
    /\ master.level = 3

\* C26: handleFileUpload accepts a file of exactly 30*1024*1024 bytes whose type
\* is allow-listed, rejects every file of 30*1024*1024+1 bytes with the
\* file-too-large message whatever its type, and for a rejected file shows the
\* message, calls decodeAudioData not once and creates no node.
C26_SizeCeilingIsInclusive ==
    [][ last'.op = "handleFileUpload"
        => LET v == upload'.validation IN
           /\ (upload.size = MaxFileSize /\ upload.type \in AllowedTypes => v.isValid)
           /\ (upload.size = MaxFileSize + 1 => ~v.isValid /\ v.error = TooLarge)
           /\ ( ~v.isValid
                => /\ upload'.alert = v.error /\ ~upload'.thrown
                   /\ upload'.decodes = upload.decodes
                   /\ upload'.canvasNodes = upload.canvasNodes
                   /\ nodes' = nodes ) ]_vars

\* after a file of exactly the ceiling was accepted and became a node, a file
\* one byte larger, of a type that is not allow-listed, was rejected as too
\* large
C26_Witness ==
    /\ last.op = "handleFileUpload"
    /\ upload.handled /\ upload.uploads = 2
    /\ upload.size = MaxFileSize + 1 /\ upload.type = "audio/flac"
    /\ ~upload.validation.isValid /\ upload.validation.error = TooLarge
    /\ upload.alert = TooLarge
    /\ upload.decodes = 1 /\ upload.canvasNodes = 1
    /\ Cardinality({n \in GraphNodes : nodes[n].has}) = 1

\* the setInterval timers of node n that have not been cleared
ActiveIntervals(n) == {i \in DOMAIN intervals : intervals[i].on /\ intervals[i].node = n}

\* C30: in IndividualPlaybackManager a node has at most one time-tracking
\* interval that has not been cleared, and it has one only while it is Playing.
C30_IntervalOnlyWhilePlaying ==
    subject = "ipm"
    => \A n \in Nodes :
         /\ Cardinality(ActiveIntervals(n)) <= 1
         /\ (ActiveIntervals(n) # {} => Mode(ipmStates[n]) = "playing")

\* C28: every MediaRecorder that is recording has a stream fed by the master
\* gain stage, not by a microphone and not by a single node.
C28_RecordsTheMixBus ==
    subject = "recorder"
    => \A r \in RecIds :
         recorder.state[r] = "recording" => recorder.source[r] = "masterGain"

\* the chunks of a blob that holds what recorder r buffered, and nothing else
OwnChunks(r) == [i \in 1..recorder.produced[r] |-> r]

\* no start awaits its stream and no stop event is queued while isRecording is
\* false
Settled ==
    /\ ~recorder.isRecording
    /\ recorder.pending = 0
    /\ \A r \in RecIds : recorder.state[r] # "stopping"

\* C29: onRecordingComplete is invoked at most once for a capture, never for a
\* recorder that was not constructed, and with the chunks that capture
\* buffered; once isRecording is false, every start has completed and every
\* queued stop event is delivered, each capture that was started has been
\* completed exactly once.
C29_CompletesExactlyOnce ==
    subject = "recorder"
    => \A r \in RecIds :
         /\ recorder.completes[r] <= 1
         /\ (recorder.state[r] = "none" => recorder.completes[r] = 0)
         /\ (recorder.completes[r] = 1 => recorder.blobs[r] = OwnChunks(r))
         /\ (Settled /\ recorder.state[r] # "none" => recorder.completes[r] = 1)

\* C31: the gain stage of every node that has one is at 0 when the node is
\* muted and at the stored volume otherwise.
C31_GainFollowsVolumeAndMute ==
    subject = "graph"
    => \A n \in GraphNodes :
         nodeStates[n].has
         => nodeStates[n].gain = IF nodeStates[n].isMuted THEN 0 ELSE nodeStates[n].volume

\* C32: no node has more than one gain stage of its own connected to the
\* master bus.
C32_OneGainStagePerNode ==
    subject = "graph" => \A n \in GraphNodes : nodeStates[n].stages <= 1

\* What a read of a map returns for a key the map does not hold
Undefined == [has |-> FALSE]

\* NodeManager.getNode
NmGetNode(n) == IF nodes[n].has THEN nodes[n] ELSE Undefined

\* AudioEngine.getNodeState
EngGetNodeState(n) == IF nodeStates[n].has THEN nodeStates[n] ELSE Undefined

\* AudioEngine.isNodePaused
EngIsNodePaused(n) == IF nodeStates[n].has THEN nodeStates[n].isPaused ELSE FALSE

\* C33: once a node has been removed, both the node manager and the engine
\* report it as not found.
C33_RemovedNodeIsNotFound ==
    subject = "graph"
    => \A n \in GraphNodes :
         nodes[n].gone => NmGetNode(n) = Undefined /\ EngGetNodeState(n) = Undefined

\* C34: in IndividualPlaybackManager a Paused node stays Paused at the same
\* currentTime over every step that is not a playNode, toggleNode, stopNode,
\* initializeNode or dispose call: over the 'ended' callbacks and the timers.
C34_PauseOutlivesEnded ==
    [][(subject = "ipm" /\ last'.op \in {"ipmEnded", "tracker", "tick", "ipmPause"})
       => \A n \in Nodes :
            ipmStates[n].isPaused
            => /\ ipmStates'[n].isPaused
               /\ ipmStates'[n].currentTime = ipmStates[n].currentTime]_vars

\* The last instant at which a source can start and still play out its whole
\* buffer before the clock stops
LastCall == MaxClock - BufferDuration

\* The engine alone, playing non-looping sources: the user operations cease
\* after LastCall, the audio clock advances and every queued 'ended' event is
\* delivered in the end.
EndInit == Init /\ subject = "engine"

EndPlay(n) == clock <= LastCall /\ PlayAudioBuffer(n, FALSE)

EndStop(n) == clock <= LastCall /\ StopNode(n)

EndPause(n) == clock <= LastCall /\ PauseNode(n)

EndResume(n) == clock <= LastCall /\ ResumeNode(n)

EndNext ==
    \/ Initialize
    \/ Tick
    \/ \E n \in Nodes : EndPlay(n)
    \/ \E n \in Nodes : EndStop(n)
    \/ \E n \in Nodes : EndPause(n)
    \/ \E n \in Nodes : EndResume(n)
    \/ \E s \in SrcIds : EngineEnded(s)

EndSpec ==
    /\ EndInit
    /\ [][EndNext]_vars
    /\ WF_vars(Tick)
    /\ WF_vars(\E s \in SrcIds : EngineEnded(s))

\* AudioEngine.isNodePlaying
EngIsNodePlaying(n) == activeNodes[n] # None

\* The engine reports the node as not Playing and no source of it sounds
Quiet(n) ==
    /\ ~EngIsNodePlaying(n)
    /\ ~nodeStates[n].isPlaying
    /\ LiveSourcesOf(n) = {}

\* C35: once the user operations have ceased, every node is in the end not
\* Playing for the engine (isNodePlaying false, isPlaying false) with no live
\* source left, and stays so.
C35_PlayingEventuallyEnds == <>[](\A n \in Nodes : Quiet(n))

C35_Witness ==
    /\ subject = "engine"
    /\ last.op = "ended" /\ last.natural /\ last.was = "playing"
    /\ Quiet(last.node)

\* C36: NodeManager's isPlaying flag of every node it holds is true exactly
\* when AudioEngine.isNodePlaying reports a live source for the node.
C36_FlagMatchesEngine ==
    subject = "graph"
    => \A n \in GraphNodes :
         nodes[n].has => (nodes[n].isPlaying <=> EngIsNodePlaying(n))

\* C37: NodeManager.removeNode(X) leaves the transport state and the playback
\* source of every node other than X as they were.
C37_RemoveTouchesOneNode ==
    [][(subject = "graph" /\ last'.op = "removeNode")
       => \A n \in GraphNodes \ {last'.node} :
            /\ SameTransport(nodeStates'[n], nodeStates[n])
            /\ activeNodes'[n] = activeNodes[n]
            /\ nodes'[n].isPlaying = nodes[n].isPlaying
            /\ \A s \in GraphSrcIds :
                 sources[s].node = n => sources'[s] = sources[s]]_vars

\* C38: the source that resumeNode creates for a node whose looping source was
\* just paused is a looping source.
C38_ResumeKeepsLoop ==
    [][(/\ subject = "engine"
        /\ last.op = "pauseNode" /\ last.arg = TRUE /\ ~last.thrown
        /\ last'.op = "resumeNode" /\ last'.node = last.node /\ last'.src # None)
       => sources'[last'.src].loop]_vars

\* C39: in the microphone-based SessionRecorder, whenever isRecording is false
\* and no start awaits its stream, no MediaRecorder is recording and no
\* duration interval is running.
C39_NothingRunsWhenOff ==
    (/\ subject = "recorder"
     /\ recorder.variant = "microphone"
     /\ ~recorder.isRecording
     /\ recorder.pending = 0)
    => /\ \A r \in RecIds : recorder.state[r] # "recording"
       /\ recorder.timers = {}

\* C40: no longPress is emitted for a press that an onEnd has ended or that
\* was classified as a drag, no press has more than one of tap, doubleTap and
\* longPress emitted for it, and the tap that follows a doubleTap is never
\* classified as a doubleTap.
C40_GesturesAreExclusive ==
    [][subject = "gesture"
       => /\ (last'.op = "longPressTimer" /\ last'.arg = "longPress")
                => last'.ref \notin gesture.closed
          /\ \A p \in PressIds : gesture'.emitted[p] <= 1
          /\ (last'.op = "onEnd" /\ last'.arg = "doubleTap")
                => gesture.lastKind # "doubleTap"]_vars
====
